---------------------------- MODULE Spec2Model ----------------------------
(***************************************************************************)
(* L3, the Lightweight Logging Library, and its client/server use case.    *)
(*                                                                         *)
(* The module models                                                       *)
(*   - the variadic generation of the library  (src/l3.c, src/l3.h):       *)
(*       l3_init, l3_log_fn;                                               *)
(*   - the fixed two-argument generation (src/src/l3.c, src/include/l3.h): *)
(*       l3_init, l3_log_mmap;                                             *)
(*   - the System V message-queue server and client                        *)
(*       (src/use-cases/client-server-msgs-perf/).                         *)
(*                                                                         *)
(* Specifications:                                                         *)
(*   SpecFixed  threads appending with l3_log_mmap after a successful init *)
(*   SpecVar    threads appending with l3_log_fn   after a successful init *)
(*   SpecFast   threads appending with l3_log_simple and l3_log_fast       *)
(*   SpecInit   one thread: l3_init on fresh and reused paths, appends     *)
(*   SpecLife   one thread: l3_init, l3_deinit, appends; Linux and macOS   *)
(*   SpecLog    l3_log_init, log calls, l3_log_deinit in library and tests *)
(*   SpecWide   one append of either generation at any 64-bit cursor value *)
(*   SpecReuse  fixed-generation appends into the file of an earlier run   *)
(*   SpecSize   one call of the formatting utility (size_str.c)            *)
(*   SpecBench, SpecBenchFair  the microbenchmark harnesses (tests/perf)   *)
(*   SpecSvr    server worker threads, main thread and client processes    *)
(*   SpecSvrFair  SpecSvr with weak fairness of every thread and process   *)
(*   SpecFull   SpecSvr late in a run, the client table nearly used up     *)
(***************************************************************************)
EXTENDS Integers, Sequences, FiniteSets, TLC

(***************************************************************************)
(* Bounds of the model.                                                    *)
(***************************************************************************)
\* log2 of the ring capacity: the source has 2^14 (fixed) and 2^15 (variadic)
LogSlots == 2
\* threads that append concurrently
NumThreads == 2
\* append calls per behaviour (caps the write cursor)
MaxCalls == 5
\* append calls in a run that mixes l3_log_simple and l3_log_fast
MaxFastCalls == 5
\* variadic append calls per behaviour
MaxVarCalls == 2
\* l3_init calls per behaviour
MaxInits == 3
\* append calls per behaviour of the process that calls l3_init repeatedly
MaxInitAppends == 1
\* calls of l3_deinit in a run
MaxDeinits == 1
\* appends into a ring whose cursor has any 64-bit value
MaxWideCalls == 1
\* the formatting utility is called with every value up to this one
MaxSmall == 1100
\* the microbenchmark runs with up to this many workers
MaxBenchThreads == 3
\* the microbenchmark's nmsgs before a mode multiplies it
MaxMsgs == 1
\* calls of l3_log_init, and of the text backends' log functions, in a run
MaxLogInits == 2
MaxLogWrites == 2
\* server worker threads, client processes, iterations a client may ask for
NumWorkers == 2
NumClients == 2
MaxIters == 1
\* distinct argument values a caller passes
MaxArg == 2

(***************************************************************************)
(* Program constants.                                                      *)
(***************************************************************************)
\* src/l3.h:29 and src/include/l3.h:28 -- a power of two in both generations
L3_MAX_SLOTS == 2 ^ LogSlots
\* src/l3.h:23
L3_ARG_UNUSED == 0
\* src/l3.h:38
L3_DLADDR_NOT_FOUND_ERRNO == 1234
\* src/l3.h:78-79, L3_MACRO_NARGS counts 0..9 arguments
L3_MAX_NARGS == 9
\* enum platform_t, enum loc_type_t
L3_LOG_PLATFORM_LINUX == 1
L3_LOG_PLATFORM_MACOSX == 2
L3_LOG_LOC_NONE == 0
L3_LOG_LOC_ENCODING == 1
L3_LOG_LOC_ELF_ENCODING == 2

\* sizeof(uint64_t)
SizeofU64 == 8
\* sizeof(L3_LOG) up to slots[]: idx, fbase_addr, 4+2+1+1 bytes, pad1
SizeofHeader == 8 + 8 + 4 + 2 + 1 + 1 + 8

(***************************************************************************)
(* 64-bit unsigned integers.  TLC's integers have 32 bits, so a uint64_t   *)
(* is four 16-bit limbs, least significant first; a uint32_t is two.       *)
(***************************************************************************)
LimbBase == 2 ^ 16

U64Zero == <<0, 0, 0, 0>>

\* c + n modulo 2^64, for 0 <= n < 2^16
U64Add(c, n) ==
    LET s1 == c[1] + n
        s2 == c[2] + (s1 \div LimbBase)
        s3 == c[3] + (s2 \div LimbBase)
        s4 == c[4] + (s3 \div LimbBase)
    IN  <<s1 % LimbBase, s2 % LimbBase, s3 % LimbBase, s4 % LimbBase>>

\* c % m, for 0 < m <= 2^15 (Horner's rule over the limbs)
U64Mod(c, m) ==
    LET r4 == c[4] % m
        r3 == (r4 * LimbBase + c[3]) % m
        r2 == (r3 * LimbBase + c[2]) % m
    IN  (r2 * LimbBase + c[1]) % m

\* c - d modulo 2^64
U64Sub(c, d) ==
    LET d1 == c[1] - d[1]
        d2 == c[2] - d[2] - (IF d1 < 0 THEN 1 ELSE 0)
        d3 == c[3] - d[3] - (IF d2 < 0 THEN 1 ELSE 0)
        d4 == c[4] - d[4] - (IF d3 < 0 THEN 1 ELSE 0)
    IN  <<(d1 + LimbBase) % LimbBase, (d2 + LimbBase) % LimbBase,
          (d3 + LimbBase) % LimbBase, (d4 + LimbBase) % LimbBase>>

\* c < d
U64Less(c, d) == \E i \in 1 .. 4 : c[i] < d[i] /\ \A j \in (i + 1) .. 4 : c[j] = d[j]

\* mutant: the conversion to 32 bits saturates
U32Of_Saturate(c) ==
    IF c[3] # 0 \/ c[4] # 0 THEN <<LimbBase - 1, LimbBase - 1>> ELSE <<c[1], c[2]>>

\* (uint32_t) c
U32Of(c) == <<c[1], c[2]>>

\* u % m for a uint32_t u, 0 < m <= 2^15
U32Mod(u, m) == ((u[2] % m) * LimbBase + u[1]) % m

\* the value of a cursor that is below 2^31
CursorNat(c) == c[1] + LimbBase * c[2]

(***************************************************************************)
(* The process and its environment.                                        *)
(***************************************************************************)
Threads == 1 .. NumThreads
\* the thread that runs main()
MainThread == 1
\* value of L3_GET_TID() in thread t: positive and distinct
L3_GET_TID(t) == 100 + t

NULL == "NULL"
MAP_FAILED == "MAP_FAILED"
NoFile == [exists |-> FALSE]
Paths == {"/tmp/l3_test", "/tmp/l3_small_test"}

\* dli_fbase reported by dladdr(): where the program is loaded
dli_fbase == 4096
\* addresses of string literals of the program
Msgs == {dli_fbase + 16, dli_fbase + 48}
\* values of __LOC__ when location encoding is compiled in
Locs == {7}
ArgVals == 1 .. MaxArg

Slots == 0 .. (L3_MAX_SLOTS - 1)

VARIABLES
    build,        \* compile-time choices: [gen, loc_enabled]
    files,        \* the file system: path -> NoFile or a log file
    l3_log,       \* the global L3_LOG *l3_log: NULL, MAP_FAILED or the mapped file
    l3_rv,        \* what the last l3_init returned
    l3_errno,     \* errno as the last l3_init left it
    init_calls,   \* history: the path arguments of the l3_init calls so far
    l3_my_tid,    \* thread-local cached thread id (0 = not yet looked up)
    started,      \* the threads of the process that exist
    libc_single_threaded,  \* glibc's __libc_single_threaded
    pc,           \* where each thread is in its append call
    ofs,          \* each thread's local slot index (idx / ofs)
    call,         \* each thread's arguments of the call in progress
    grants        \* history: the reservations in the order they were granted

l3vars == <<build, files, l3_log, l3_rv, l3_errno, init_calls, l3_my_tid, started,
            libc_single_threaded, pc, ofs, call, grants>>

VARIABLES
    serverQ,              \* the server's message queue, oldest message first
    clientQ,              \* each client's private response queue
    NumActiveClientsHWM,  \* _Atomic int
    NumActiveClients,     \* _Atomic int
    ActiveClients,        \* Client_info ActiveClients[MAX_CLIENTS]
    wpc,                  \* where each worker thread is in svr_proc_process_msg
    req,                  \* each worker's requestMsg req
    wresp,                \* each worker's responseMsg resp
    svr_num_ops,          \* each worker's local svr_num_ops
    svr_config,           \* svr_config[].svr_num_ops as the workers leave it
    mainpc,               \* where the server's main() is
    num_ops,              \* the num_ops that printSummaryStats reports
    cpc,                  \* where each client process is in its main()
    creq,                 \* each client's requestMsg req
    cresp,                \* each client's responseMsg resp
    ictr,                 \* each client's loop counter
    niters,               \* each client's iteration count (argv[1])
    assigned              \* history: <<clientId, index>> in the order INITs were processed

svrvars == <<serverQ, clientQ, NumActiveClientsHWM, NumActiveClients, ActiveClients, wpc,
             req, wresp, svr_num_ops, svr_config, mainpc, num_ops, cpc, creq, cresp, ictr,
             niters, assigned>>

VARIABLES
    live,         \* the region l3_log points to is mapped in the process
    os_fault,     \* history: the call that failed in the last l3_init ("ok": none)
    deinit_rvs,   \* history: what the l3_deinit calls so far returned
    layers,       \* the lifecycle layers over the backends (l3_log_init and its twin)
    mapped_pages  \* the pages of the region l3_log points to that are mapped

VARIABLES
    sz,           \* the process that calls the formatting utility (size_str.c)
    bench         \* the microbenchmark harness (log_ubench.cpp, mt_ubench_l3.cpp)

utvars == <<sz, bench>>

\* the program is none of the two utilities: their variables stay empty
NoUtils == sz = <<>> /\ bench = <<>>

lcvars == <<live, mapped_pages, os_fault, deinit_rvs, layers, utvars>>

vars == <<l3vars, svrvars, lcvars>>

(***************************************************************************)
(* Layout: src/src/l3.c:59-70 (fixed), src/l3.c:54-72 (variadic).          *)
(***************************************************************************)
\* sizeof(L3_ENTRY): a struct of 4+4+8+8+8 bytes, or a union of two 24-byte structs
SizeofEntry(gen) ==
    IF gen = "fixed" THEN 4 + 4 + SizeofU64 + SizeofU64 + SizeofU64
    ELSE LET body == 3 * SizeofU64
             foot == 4 + 4 + SizeofU64 + SizeofU64
         IN  IF body > foot THEN body ELSE foot

\* a zero-filled slot.  Fixed: the struct's fields.  Variadic: the union's three
\* words; body.args[0] and {foot.tid, foot.loc} share word 0, kept as <<low, high>>
\* 32-bit halves; args[1] shares a word with foot.msg, args[2] with foot.argN.
ZeroSlot(gen) ==
    IF gen = "fixed" THEN [tid |-> 0, loc |-> 0, msg |-> 0, arg1 |-> 0, arg2 |-> 0]
    ELSE [w0 |-> <<0, 0>>, w1 |-> 0, w2 |-> 0]

ZeroHeader ==
    [idx |-> U64Zero, fbase_addr |-> 0, slot_count |-> 0, platform |-> 0, loc_type |-> 0]

\* a file that open(O_CREAT) has just created: no bytes, reads as zeros when extended
EmptyFile(gen) ==
    [size |-> 0, hdr |-> ZeroHeader, slots |-> [s \in Slots |-> ZeroSlot(gen)]]

\* L3_LOG_ENTRY_SZ (src/src/l3.c:76): the entry size the dump script hard-codes
L3_LOG_ENTRY_SZ == 4 * SizeofU64

\* fsize of l3_init: sizeof(L3_LOG) + L3_MAX_SLOTS * sizeof(L3_ENTRY); in the fixed
\* generation sizeof(L3_LOG) itself, which holds slots[L3_MAX_SLOTS]
Fsize(gen) == SizeofHeader + L3_MAX_SLOTS * SizeofEntry(gen)

\* The page of the model.  As in the process, where a page is 4096 bytes and the
\* region 32 + 32768 * 32 bytes, a page holds the header and not the whole region.
PageSize == 2 * L3_LOG_ENTRY_SZ

\* the pages that hold a part of the first len bytes of a mapping
PagesOf(len) == 0 .. (((len + PageSize - 1) \div PageSize) - 1)

\* the pages that mmap(NULL, fsize, ...) of l3_init maps
RegionPages(gen) == PagesOf(Fsize(gen))


(***************************************************************************)
(* l3_init.  `os` names the call that fails in this run of the function    *)
(* ("ok": none).  The result is what the function leaves behind:           *)
(* [files, l3_log, rv, errno].                                             *)
(***************************************************************************)
OsOutcomes == {"ok", "open", "lseek", "write", "mmap", "dladdr"}

\* the descriptor open() returns; write(fd, &fd, 1) writes its low byte
OpenFd == 3

\* mutant: the file is opened with O_TRUNC
OpenCreat_Trunc(fs, path, gen) == [fs EXCEPT ![path] = EmptyFile(gen)]

\* open(path, O_RDWR | O_CREAT, 0666): creates the file if there is none
OpenCreat(fs, path, gen) ==
    IF fs[path] = NoFile THEN [fs EXCEPT ![path] = EmptyFile(gen)] ELSE fs

\* lseek(fd, off, SEEK_SET); write(fd, &fd, 1): one byte at offset off.  Inside the
\* header it lands in idx, inside the slot array in the first field of a slot,
\* past the end it extends the file.
SeekWriteByte(file, off, gen) ==
    LET grown == [file EXCEPT !.size = IF @ > off + 1 THEN @ ELSE off + 1]
        s     == (off - SizeofHeader) \div SizeofEntry(gen)
    IN  IF off < SizeofU64
            THEN [grown EXCEPT !.hdr.idx = <<OpenFd, 0, 0, 0>>]
        ELSE IF off < SizeofHeader
            THEN grown
        ELSE IF s \in Slots
            THEN IF gen = "fixed"
                     THEN [grown EXCEPT !.slots[s].tid = OpenFd]
                     ELSE [grown EXCEPT !.slots[s].w0 = <<OpenFd, 0>>]
        ELSE grown

\* the location-encoding scheme compiled in (src/l3.c:198-203)
LocType(bld) ==
    IF bld.loc_elf THEN L3_LOG_LOC_ELF_ENCODING
    ELSE IF bld.loc_enabled THEN L3_LOG_LOC_ENCODING
    ELSE L3_LOG_LOC_NONE

\* getBaseAddress() of the Mach-O build: [rv, errno]
getBaseAddress(os, errno) ==
    IF os = "dladdr"
        THEN [rv |-> -1, errno |-> L3_DLADDR_NOT_FOUND_ERRNO]
        ELSE [rv |-> dli_fbase, errno |-> errno]

\* everything l3_init does once mmap() has returned a mapping of `path`
\* (from "l3_log->idx = 0" on); slot_count / log_size is written at `early` or not
InitHeader(bld, fs, path, os, errno, countFirst) ==
    LET f0 == [fs[path] EXCEPT !.hdr.idx = U64Zero]
        f1 == IF countFirst THEN [f0 EXCEPT !.hdr.slot_count = L3_MAX_SLOTS] ELSE f0
        gb == getBaseAddress(os, errno)
        f2 == IF bld.apple
                  THEN [f1 EXCEPT !.hdr.fbase_addr = gb.rv,
                                  !.hdr.platform = L3_LOG_PLATFORM_MACOSX]
                  ELSE [f1 EXCEPT !.hdr.fbase_addr = dli_fbase,
                                  !.hdr.platform = L3_LOG_PLATFORM_LINUX]
        f3 == [f2 EXCEPT !.hdr.loc_type = LocType(bld), !.hdr.slot_count = L3_MAX_SLOTS]
    IN  IF ~bld.apple /\ os = "dladdr"
            THEN [files |-> [fs EXCEPT ![path] = f1], l3_log |-> path, rv |-> -1,
                  errno |-> L3_DLADDR_NOT_FOUND_ERRNO]
            ELSE [files |-> [fs EXCEPT ![path] = f3], l3_log |-> path, rv |-> 0,
                  errno |-> IF bld.apple THEN gb.errno ELSE errno]

\* the open / lseek / write / mmap prefix shared by both generations; `off` is the
\* lseek offset and countFirst tells where the slot count is written
InitAt(bld, fs, log, path, os, errno, off, countFirst) ==
    LET failed(f, l) == [files |-> f, l3_log |-> l, rv |-> -1, errno |-> "OSERR"]
        opened  == OpenCreat(fs, path, bld.gen)
        written == [opened EXCEPT ![path] = SeekWriteByte(@, off, bld.gen)]
    IN  IF path = NULL
            \* fd = -1 and no MAP_ANONYMOUS: mmap() fails with EBADF
            THEN failed(fs, MAP_FAILED)
        ELSE IF os = "open"  THEN failed(fs, log)
        ELSE IF os = "lseek" THEN failed(opened, log)
        ELSE IF os = "write" THEN failed(opened, log)
        ELSE IF os = "mmap"  THEN failed(written, MAP_FAILED)
        ELSE InitHeader(bld, written, path, os, errno, countFirst)

\* src/l3.c:147-209
l3_init(bld, fs, log, path, os, errno) ==
    InitAt(bld, fs, log, path, os, errno, Fsize("variadic"), TRUE)

\* src/src/l3.c:260-323
l3_init_fixed(bld, fs, log, path, os, errno) ==
    InitAt(bld, fs, log, path, os, errno, Fsize("fixed"), FALSE)

\* the l3_init of the generation that is linked in
l3_init_linked(bld, fs, log, path, os, errno) ==
    IF bld.gen = "fixed" THEN l3_init_fixed(bld, fs, log, path, os, errno)
    ELSE l3_init(bld, fs, log, path, os, errno)

(***************************************************************************)
(* Helpers shared by the append paths.                                     *)
(***************************************************************************)
\* the mapped log (MAP_SHARED: the mapping is the file's content)
Log == files[l3_log]

\* mutant: the cursor is read and never advanced
SyncFetchAndAdd_NoAdd(c, n) == c

\* __sync_fetch_and_add(&l3_log->idx, n): the value it stores; it returns the old one
SyncFetchAndAdd(c, n) == U64Add(c, n)

\* the thread-local tid cache after a lookup by thread t (l3_mytid, l3_my_tid)
CacheTid(tids, t) == IF tids[t] = 0 THEN [tids EXCEPT ![t] = L3_GET_TID(t)] ELSE tids

\* calls that thread t has reserved so far
CallsBy(t) == Cardinality({k \in 1 .. Len(grants) : grants[k].t = t})

\* the loc argument the caller macro passes
LocArgs(bld) == IF bld.loc_enabled THEN Locs ELSE {L3_ARG_UNUSED}

\* history: a slot of reservation k is written although the cursor has already
\* passed the cursor value that maps to the same slot one lap later
IsLate(k, block) ==
    U64Less(U64Add(U64Zero, block + L3_MAX_SLOTS), U64Sub(Log.hdr.idx, grants[k].cursor))

MarkLate(k, block) ==
    IF IsLate(k, block) THEN [grants EXCEPT ![k].late = TRUE] ELSE grants

(***************************************************************************)
(* l3_log_mmap, src/src/l3.c:392-417: the fixed two-argument append.       *)
(* Two steps: the atomic reservation, then the stores into the slot.       *)
(***************************************************************************)
\* mutant: the slot index is taken from the new cursor value (add-and-fetch)
MmapIndex_AddAndFetch(c) == U64Mod(U64Add(c, 1), L3_MAX_SLOTS)

\* int idx = <old cursor> % L3_MAX_SLOTS
MmapIndex(c) == U64Mod(c, L3_MAX_SLOTS)

\* mutant: the two arguments are stored in each other's field
MmapStore_SwapArgs(bld, slot, tid, msg, arg1, arg2, loc) ==
    LET s1 == [slot EXCEPT !.tid = tid]
        s2 == IF bld.loc_enabled THEN [s1 EXCEPT !.loc = loc] ELSE s1
    IN  [s2 EXCEPT !.msg = msg, !.arg1 = arg2, !.arg2 = arg1]

\* the slot after the stores of lines 402-416; loc is stored only when location
\* encoding is compiled in
MmapStore(bld, slot, tid, msg, arg1, arg2, loc) ==
    LET s1 == [slot EXCEPT !.tid = tid]
        s2 == IF bld.loc_enabled THEN [s1 EXCEPT !.loc = loc] ELSE s1
    IN  [s2 EXCEPT !.msg = msg, !.arg1 = arg1, !.arg2 = arg2]

l3_log_mmap_reserve(t, msg, arg1, arg2, loc) ==
    /\ t \in started
    /\ pc[t] = "idle"
    /\ Len(grants) < MaxCalls
    /\ LET c == Log.hdr.idx
       IN  /\ files' = [files EXCEPT ![l3_log].hdr.idx = SyncFetchAndAdd(c, 1)]
           /\ ofs' = [ofs EXCEPT ![t] = MmapIndex(c)]
           /\ call' = [call EXCEPT ![t] = [k |-> Len(grants) + 1, msg |-> msg, loc |-> loc,
                                           args |-> <<arg1, arg2>>, i |-> 0]]
           /\ grants' = Append(grants, [t |-> t, cursor |-> c, blocks |-> 1, msg |-> msg,
                                        loc |-> loc, args |-> <<arg1, arg2>>, late |-> FALSE])
    /\ pc' = [pc EXCEPT ![t] = "write"]
    /\ UNCHANGED <<svrvars, lcvars>>
    /\ UNCHANGED <<build, init_calls, l3_log, l3_rv, l3_errno, l3_my_tid, started, libc_single_threaded>>

l3_log_mmap_write(t) ==
    /\ pc[t] = "write"
    /\ l3_my_tid' = CacheTid(l3_my_tid, t)
    /\ files' = [files EXCEPT ![l3_log].slots[ofs[t]] =
                    MmapStore(build, @, l3_my_tid'[t], call[t].msg,
                              call[t].args[1], call[t].args[2], call[t].loc)]
    /\ grants' = MarkLate(call[t].k, 0)
    /\ pc' = [pc EXCEPT ![t] = "idle"]
    /\ UNCHANGED <<svrvars, lcvars>>
    /\ UNCHANGED <<build, init_calls, l3_log, l3_rv, l3_errno, started, libc_single_threaded, ofs, call>>

\* the appends of one thread: a running counter and a second argument, as the
\* repository's test programs pass them
l3_log_mmap(t) ==
    \/ \E msg \in Msgs, arg2 \in ArgVals, loc \in LocArgs(build) :
          l3_log_mmap_reserve(t, msg, CallsBy(t) + 1, arg2, loc)
    \/ l3_log_mmap_write(t)

(***************************************************************************)
(* pthread_create, src/tests/perf/mt_ubench_l3.cpp:42-54: the main thread  *)
(* starts a thread that logs; the process is no longer single-threaded.    *)
(***************************************************************************)
pthread_create(t) ==
    /\ t \in Threads \ started
    /\ pc[MainThread] = "idle"
    /\ started' = started \cup {t}
    /\ libc_single_threaded' = FALSE
    /\ UNCHANGED <<svrvars, lcvars>>
    /\ UNCHANGED <<build, init_calls, files, l3_log, l3_rv, l3_errno, l3_my_tid, pc, ofs, call, grants>>

(***************************************************************************)
(* l3_log_fn, src/l3.c:220-268: the variadic append.                       *)
(* Steps: the reservation (one atomic add, or a load and an add when the   *)
(* process is single-threaded), one step per argument block, the footer.   *)
(***************************************************************************)
\* args_per_block = sizeof(L3_ENTRY) / sizeof(uint64_t)
ArgsPerBlock == SizeofEntry("variadic") \div SizeofU64

\* mutant: the argument blocks are counted rounding down
EntryBlocks_Floor(nargs) == 1 + nargs \div ArgsPerBlock

\* entryBlocks = 1 + (nargs + args_per_block - 1) / args_per_block
EntryBlocks(nargs) == 1 + (nargs + ArgsPerBlock - 1) \div ArgsPerBlock

\* mutant: the cursor is always advanced with the plain load and add
UsePlainIncrement_Always(bld, single) == TRUE

\* #ifndef __APPLE__ / if (__libc_single_threaded): the plain load and add
UsePlainIncrement(bld, single) == ~bld.apple /\ single

L3_MIN(a, b) == IF a > b THEN b ELSE a

\* mutant: the slot index is incremented without wrapping
WrapInc_NoWrap(o) == o + 1

\* if (++ofs >= L3_MAX_SLOTS) ofs -= L3_MAX_SLOTS
WrapInc(o) == IF o + 1 >= L3_MAX_SLOTS THEN o + 1 - L3_MAX_SLOTS ELSE o + 1

\* a uint64_t below 2^32 as <<low, high>> 32-bit halves
Halves(v) == <<v, 0>>

\* mutant: every argument of a block goes to args[0]
BodyStore_FirstWord(slot, j, v) == [slot EXCEPT !.w0 = Halves(v)]

\* slots[ofs].body.args[j] = v
BodyStore(slot, j, v) ==
    IF j = 0 THEN [slot EXCEPT !.w0 = Halves(v)]
    ELSE IF j = 1 THEN [slot EXCEPT !.w1 = v]
    ELSE [slot EXCEPT !.w2 = v]

\* the inner loop: the first m of the remaining arguments go to args[0..m-1]
RECURSIVE BlockStore(_, _, _, _)
BlockStore(slot, args, first, m) ==
    IF m = 0 THEN slot
    ELSE BodyStore(BlockStore(slot, args, first, m - 1), m - 1, args[first + m - 1])

\* mutant: the footer is stored without its argument count
FootStore_NoCount(slot, tid, loc, msg, nargs) ==
    [slot EXCEPT !.w0 = <<tid, loc>>, !.w1 = msg]

\* foot.tid, foot.loc, foot.msg, foot.argN
FootStore(slot, tid, loc, msg, nargs) ==
    [slot EXCEPT !.w0 = <<tid, loc>>, !.w1 = msg, !.w2 = nargs]

\* history: the calls of the other threads that are in progress are interleaved
\* with a step of thread t, which leaves its own call record as rec
Interleave(t, rec) ==
    [u \in Threads |->
        IF u = t THEN rec
        ELSE IF pc[u] # "idle" THEN [call[u] EXCEPT !.intr = TRUE]
        ELSE call[u]]

\* where the call goes after the reservation
AfterReserve(nargs) == IF nargs > 0 THEN "args" ELSE "foot"

NewCall(msg, loc, args, c) ==
    [k |-> Len(grants) + 1, msg |-> msg, loc |-> loc, args |-> args, i |-> Len(args),
     cursor |-> c, blocks |-> EntryBlocks(Len(args)), intr |-> FALSE]

GrantOf(t, rec) ==
    [t |-> t, cursor |-> rec.cursor, blocks |-> rec.blocks, msg |-> rec.msg,
     loc |-> rec.loc, args |-> rec.args, late |-> FALSE]

\* lines 239-246: ofs = __sync_fetch_and_add(&l3_log->idx, entryBlocks); the
\* thread id is cached; ofs %= L3_MAX_SLOTS
l3_log_fn_atomic(t, msg, loc, args) ==
    /\ t \in started
    /\ pc[t] = "idle"
    /\ Len(grants) < MaxVarCalls
    /\ ~UsePlainIncrement(build, libc_single_threaded)
    /\ LET c   == Log.hdr.idx
           rec == NewCall(msg, loc, args, c)
       IN  /\ files' = [files EXCEPT ![l3_log].hdr.idx = SyncFetchAndAdd(c, rec.blocks)]
           /\ ofs' = [ofs EXCEPT ![t] = U32Mod(U32Of(c), L3_MAX_SLOTS)]
           /\ call' = Interleave(t, rec)
           /\ grants' = Append(grants, GrantOf(t, rec))
    /\ l3_my_tid' = CacheTid(l3_my_tid, t)
    /\ pc' = [pc EXCEPT ![t] = AfterReserve(Len(args))]
    /\ UNCHANGED <<svrvars, lcvars>>
    /\ UNCHANGED <<build, init_calls, l3_log, l3_rv, l3_errno, started, libc_single_threaded>>

\* line 234: ofs = l3_log->idx
l3_log_fn_load(t, msg, loc, args) ==
    /\ t \in started
    /\ pc[t] = "idle"
    /\ Len(grants) < MaxVarCalls
    /\ UsePlainIncrement(build, libc_single_threaded)
    /\ ofs' = [ofs EXCEPT ![t] = U32Of(Log.hdr.idx)]
    /\ call' = Interleave(t, NewCall(msg, loc, args, Log.hdr.idx))
    /\ pc' = [pc EXCEPT ![t] = "add"]
    /\ UNCHANGED <<svrvars, lcvars>>
    /\ UNCHANGED <<build, init_calls, files, l3_log, l3_rv, l3_errno, l3_my_tid, started,
                   libc_single_threaded, grants>>

\* line 235: l3_log->idx += entryBlocks; then the tid and ofs %= L3_MAX_SLOTS
l3_log_fn_add(t) ==
    /\ pc[t] = "add"
    /\ files' = [files EXCEPT ![l3_log].hdr.idx = U64Add(@, call[t].blocks)]
    /\ ofs' = [ofs EXCEPT ![t] = U32Mod(@, L3_MAX_SLOTS)]
    /\ call' = Interleave(t, call[t])
    /\ grants' = Append(grants, GrantOf(t, call[t]))
    /\ l3_my_tid' = CacheTid(l3_my_tid, t)
    /\ pc' = [pc EXCEPT ![t] = AfterReserve(Len(call[t].args))]
    /\ UNCHANGED <<svrvars, lcvars>>
    /\ UNCHANGED <<build, init_calls, l3_log, l3_rv, l3_errno, started, libc_single_threaded>>

\* lines 254-260: one pass of the outer loop
l3_log_fn_block(t) ==
    /\ pc[t] = "args"
    /\ LET rec   == call[t]
           nargs == Len(rec.args)
           m     == L3_MIN(rec.i, ArgsPerBlock)
           left  == rec.i - ArgsPerBlock
       IN  /\ files' = [files EXCEPT ![l3_log].slots[ofs[t]] =
                           BlockStore(@, rec.args, nargs - rec.i + 1, m)]
           /\ ofs' = [ofs EXCEPT ![t] = WrapInc(@)]
           /\ call' = Interleave(t, [rec EXCEPT !.i = left])
           /\ grants' = MarkLate(rec.k, (nargs - rec.i) \div ArgsPerBlock)
           /\ pc' = [pc EXCEPT ![t] = IF left > 0 THEN "args" ELSE "foot"]
    /\ UNCHANGED <<svrvars, lcvars>>
    /\ UNCHANGED <<build, init_calls, l3_log, l3_rv, l3_errno, l3_my_tid, started, libc_single_threaded>>

\* lines 264-267: the footer
l3_log_fn_foot(t) ==
    /\ pc[t] = "foot"
    /\ files' = [files EXCEPT ![l3_log].slots[ofs[t]] =
                    FootStore(@, l3_my_tid[t], call[t].loc, call[t].msg, Len(call[t].args))]
    /\ call' = Interleave(t, call[t])
    /\ grants' = MarkLate(call[t].k, call[t].blocks - 1)
    /\ pc' = [pc EXCEPT ![t] = "idle"]
    /\ UNCHANGED <<svrvars, lcvars>>
    /\ UNCHANGED <<build, init_calls, l3_log, l3_rv, l3_errno, l3_my_tid, started,
                   libc_single_threaded, ofs>>

\* the arguments of a call: distinct by position, chosen by the caller
VarArgs(nargs, a) == [i \in 1 .. nargs |-> 16 * a + i]

l3_log_fn(t) ==
    \/ \E msg \in Msgs, loc \in LocArgs(build), nargs \in 0 .. L3_MAX_NARGS, a \in ArgVals :
          \/ l3_log_fn_atomic(t, msg, loc, VarArgs(nargs, a))
          \/ l3_log_fn_load(t, msg, loc, VarArgs(nargs, a))
    \/ l3_log_fn_add(t)
    \/ l3_log_fn_block(t)
    \/ l3_log_fn_foot(t)

(***************************************************************************)
(* Initial states: the process after l3_init("/tmp/l3_test") returned 0 on *)
(* a path that did not exist.                                              *)
(***************************************************************************)
NoFiles == [p \in Paths |-> NoFile]

\* the program is not the client/server use case: its variables stay empty
NoServer ==
    /\ serverQ = <<>> /\ clientQ = <<>>
    /\ NumActiveClientsHWM = 0 /\ NumActiveClients = 0 /\ ActiveClients = <<>>
    /\ wpc = <<>> /\ req = <<>> /\ wresp = <<>> /\ svr_num_ops = <<>> /\ svr_config = <<>>
    /\ mainpc = "none" /\ num_ops = 0
    /\ cpc = <<>> /\ creq = <<>> /\ cresp = <<>> /\ ictr = <<>> /\ niters = <<>>
    /\ assigned = <<>>

Builds(gen) ==
    {[gen |-> gen, loc_enabled |-> l, loc_elf |-> FALSE, apple |-> FALSE] : l \in BOOLEAN}

\* thr: the threads that exist; glibc clears __libc_single_threaded when the
\* first thread is created
InitL3(bld, thr) ==
    LET r == l3_init_linked(bld, NoFiles, NULL, "/tmp/l3_test", "ok", 0)
    IN  /\ build = bld
        /\ files = r.files
        /\ l3_log = r.l3_log
        /\ l3_rv = r.rv
        /\ l3_errno = r.errno
        /\ init_calls = <<"/tmp/l3_test">>
        /\ l3_my_tid = [t \in Threads |-> 0]
        /\ started = thr
        /\ libc_single_threaded = (thr = {MainThread})
        /\ pc = [t \in Threads |-> "idle"]
        /\ ofs = [t \in Threads |-> 0]
        /\ call = [t \in Threads |-> <<>>]
        /\ grants = <<>>
        /\ NoServer
        /\ live = TRUE /\ mapped_pages = RegionPages(build.gen) /\ os_fault = "ok" /\ deinit_rvs = <<>> /\ layers = <<>> /\ NoUtils

\* all threads exist already (src/tests/perf/mt_ubench_l3.cpp after its barrier)
InitFixed == \E bld \in Builds("fixed") : InitL3(bld, Threads)

NextFixed == \E t \in Threads : l3_log_mmap(t)

SpecFixed == InitFixed /\ [][NextFixed]_vars

(***************************************************************************)
(* Claims about the fixed two-argument append (SpecFixed).                 *)
(***************************************************************************)
AllReturned == \A t \in Threads : pc[t] = "idle"

\* the cursor is the 64-bit number n
CursorIs(n) == Log.hdr.idx = <<n % LimbBase, n \div LimbBase, 0, 0>>

\* C1: whatever the interleaving of the l3_log_mmap calls of the threads, once
\* all N calls have returned the write cursor is N, and no two calls were
\* granted the same cursor value.
C1_CursorCountsCalls ==
    /\ AllReturned => CursorIs(Len(grants))
    /\ \A i, j \in 1 .. Len(grants) : i # j => grants[i].cursor # grants[j].cursor

\* C1 witness: all calls have returned, both threads made calls, and the calls
\* of one thread were granted cursor values around one of the other's.
C1_Witness ==
    /\ AllReturned
    /\ Len(grants) = MaxCalls
    /\ \E i, j \in 1 .. Len(grants) :
          i + 1 < j /\ grants[i].t = grants[j].t /\ grants[i + 1].t # grants[i].t

\* the entry a reservation's call stores
EntryOf(g) ==
    [tid |-> L3_GET_TID(g.t), loc |-> IF build.loc_enabled THEN g.loc ELSE 0,
     msg |-> g.msg, arg1 |-> g.args[1], arg2 |-> g.args[2]]

\* the ring holds the L3_MAX_SLOTS most recent entries, oldest at cursor mod
\* L3_MAX_SLOTS, each next one in the next slot (wrapping)
RingHoldsLatest ==
    LET n     == Len(grants)
        first == U64Mod(Log.hdr.idx, L3_MAX_SLOTS)
    IN  \A j \in 0 .. (L3_MAX_SLOTS - 1) :
           Log.slots[(first + j) % L3_MAX_SLOTS] = EntryOf(grants[n - L3_MAX_SLOTS + j + 1])

\* C5 as stated: after slotCount + K calls (K > 0) into a fresh ring, all
\* returned, the ring holds exactly the most recent slotCount entries, the
\* oldest of them at slot cursor mod slotCount.
C5_Original_RingHoldsLatest ==
    (AllReturned /\ Len(grants) > L3_MAX_SLOTS) => RingHoldsLatest

\* C5 amended: the same, for runs in which no call stored its entry after the
\* cursor had advanced more than slotCount past the value the call was granted
\* (no call was lapped; every single-threaded run is such a run).
C5_RingHoldsLatestUnlessLapped ==
    (AllReturned /\ Len(grants) > L3_MAX_SLOTS /\ \A k \in 1 .. Len(grants) : ~grants[k].late)
        => RingHoldsLatest

\* C5 witness: the ring has wrapped, all calls have returned, none was lapped,
\* and the surviving entries come from both threads.
C5_Witness ==
    /\ AllReturned
    /\ Len(grants) > L3_MAX_SLOTS
    /\ \A k \in 1 .. Len(grants) : ~grants[k].late
    /\ \E i, j \in 2 .. Len(grants) : grants[i].t # grants[j].t

\* The offline decoder's reading of a fixed two-argument entry: the fields of
\* one slot, the message as the stored pointer minus the load-base address
\* that the header records.
DecodeFixed(file, s) ==
    LET e == file.slots[s]
    IN  [tid |-> e.tid, loc |-> e.loc, offset |-> e.msg - file.hdr.fbase_addr,
         arg1 |-> e.arg1, arg2 |-> e.arg2]

l3__log_fast_reserve(t, loc, msg, arg1, arg2) ==
    /\ t \in started
    /\ pc[t] = "idle"
    /\ LET c == Log.hdr.idx
       IN  /\ files' = [files EXCEPT ![l3_log].hdr.idx = U64Add(c, 1)]
           /\ ofs' = [ofs EXCEPT ![t] = U64Mod(c, L3_MAX_SLOTS)]
           /\ call' = [call EXCEPT ![t] = [k |-> Len(grants) + 1, msg |-> msg, loc |-> loc,
                                           args |-> <<arg1, arg2>>, i |-> 0,
                                           fast |-> TRUE]]
           /\ grants' = Append(grants, [t |-> t, cursor |-> c, blocks |-> 1, msg |-> msg,
                                        loc |-> loc, args |-> <<arg1, arg2>>, late |-> FALSE])
    /\ pc' = [pc EXCEPT ![t] = "fast_write"]
    /\ UNCHANGED <<svrvars, lcvars>>
    /\ UNCHANGED <<build, init_calls, l3_log, l3_rv, l3_errno, l3_my_tid, started, libc_single_threaded>>

l3__log_fast_write(t) ==
    /\ pc[t] = "fast_write"
    /\ l3_my_tid' = CacheTid(l3_my_tid, t)
    /\ files' = [files EXCEPT ![l3_log].slots[ofs[t]] =
                    [tid |-> l3_my_tid'[t], loc |-> call[t].loc, msg |-> call[t].msg,
                     arg1 |-> call[t].args[1], arg2 |-> call[t].args[2]]]
    /\ grants' = MarkLate(call[t].k, 0)
    /\ pc' = [pc EXCEPT ![t] = "idle"]
    /\ UNCHANGED <<svrvars, lcvars>>
    /\ UNCHANGED <<build, init_calls, l3_log, l3_rv, l3_errno, started, libc_single_threaded, ofs, call>>

l3__log_fast(t) ==
    \/ \E msg \in Msgs, arg2 \in ArgVals, loc \in LocArgs(build) :
          l3__log_fast_reserve(t, loc, msg, CallsBy(t) + 1, arg2)
    \/ l3__log_fast_write(t)

\* the macro l3_log_simple(msg, arg1, arg2): l3_log_mmap with __LOC__ or
\* L3_ARG_UNUSED as the last argument (src/include/l3.h:84-132)
l3_log_simple(t) == l3_log_mmap(t)

\* the macro l3_log_fast(msg, arg1, arg2)
l3_log_fast(t) == IF build.apple THEN l3_log_simple(t) ELSE l3__log_fast(t)

FastBuilds ==
    {[gen |-> "fixed", loc_enabled |-> l, loc_elf |-> FALSE, apple |-> a] :
        l \in BOOLEAN, a \in BOOLEAN}

InitFast == \E bld \in FastBuilds : InitL3(bld, Threads)

\* a thread may start another append
MayAppendFast(t) == pc[t] # "idle" \/ Len(grants) < MaxFastCalls

NextFast ==
    \/ \E t \in Threads : MayAppendFast(t) /\ l3_log_simple(t)
    \/ \E t \in Threads : MayAppendFast(t) /\ l3_log_fast(t)

SpecFast == InitFast /\ [][NextFast]_vars

InitVar == \E bld \in Builds("variadic") : InitL3(bld, {MainThread})

NextVar ==
    \/ \E t \in Threads : pthread_create(t)
    \/ \E t \in Threads : l3_log_fn(t)

SpecVar == InitVar /\ [][NextVar]_vars

(***************************************************************************)
(* Claims about the variadic append (SpecVar).                             *)
(***************************************************************************)
Cursor == CursorNat(Log.hdr.idx)

\* the physical slots of a reservation: `blocks` slots from cursor mod capacity
RangeOf(g) == {(CursorNat(g.cursor) + b) % L3_MAX_SLOTS : b \in 0 .. (g.blocks - 1)}

\* C2: whatever the interleaving of l3_log_fn calls, the slot ranges granted to
\* two different calls are disjoint as long as the cursor has not advanced more
\* than one full capacity past the start of the earlier range; and a call stores
\* only into the range it was granted.
C2_GrantedRangesDisjoint ==
    /\ \A i, j \in 1 .. Len(grants) :
          (i < j /\ Cursor <= CursorNat(grants[i].cursor) + L3_MAX_SLOTS)
              => RangeOf(grants[i]) \cap RangeOf(grants[j]) = {}
    /\ \A t \in Threads :
          pc[t] \in {"args", "foot"} => ofs[t] \in RangeOf(grants[call[t].k])

\* C2 witness: two calls of different threads are in progress at once, the cursor
\* is exactly one capacity past the start of the earlier one, and the two ranges
\* fill the ring.
C2_Witness ==
    \E i, j \in 1 .. Len(grants) :
        /\ i < j
        /\ grants[i].t # grants[j].t
        /\ pc[grants[i].t] # "idle" /\ call[grants[i].t].k = i
        /\ pc[grants[j].t] # "idle" /\ call[grants[j].t].k = j
        /\ Cursor = CursorNat(grants[i].cursor) + L3_MAX_SLOTS
        /\ RangeOf(grants[i]) \cup RangeOf(grants[j]) = Slots

\* ceil(n / 3)
CeilThird(n) == CHOOSE q \in 0 .. n : 3 * q >= n /\ 3 * (q - 1) < n

\* C3: a variadic call with n arguments, 0 <= n <= 9, advances the cursor by
\* exactly 1 + ceil(n / 3), in the one step that grants its reservation; no other
\* step moves the cursor.
C3_CursorAdvance ==
    [][/\ Log'.hdr.idx # Log.hdr.idx => Len(grants') = Len(grants) + 1
       /\ Len(grants') = Len(grants) + 1 =>
             LET n == Len(grants'[Len(grants')].args)
             IN  /\ n \in 0 .. 9
                 /\ CursorNat(Log'.hdr.idx) = Cursor + 1 + CeilThird(n)]_vars

\* C3 witness: a call without arguments took one slot and the next call, with
\* nine arguments, took four.
C3_Witness ==
    /\ Len(grants) = 2
    /\ Len(grants[1].args) = 0 /\ CursorNat(grants[2].cursor) = CursorNat(grants[1].cursor) + 1
    /\ Len(grants[2].args) = 9 /\ Cursor = CursorNat(grants[2].cursor) + 4

\* argument word j of a slot holds v
WordIs(slot, j, v) ==
    IF j = 0 THEN slot.w0 = <<v, 0>> ELSE IF j = 1 THEN slot.w1 = v ELSE slot.w2 = v

\* reading back the entry of reservation g: the footer is ceil(n/3) slots after
\* the start slot and holds argN = n; walking back ceil(n/3) slots from the
\* footer (wrapping) gives the n arguments in order
Decodes(slots, g) ==
    LET n == Len(g.args)
        q == CeilThird(n)
        f == ((CursorNat(g.cursor) % L3_MAX_SLOTS) + q) % L3_MAX_SLOTS
    IN  /\ slots[f].w2 = n
        /\ slots[f].w1 = g.msg
        /\ \A i \in 1 .. n :
              WordIs(slots[(f + L3_MAX_SLOTS - q + (i - 1) \div 3) % L3_MAX_SLOTS],
                     (i - 1) % 3, g.args[i])

\* C4: for every start slot and every n in 0..9, when an l3_log_fn call has run
\* without a step of another thread in between, the footer is at slot
\* (start + ceil(n/3)) mod capacity with argN = n and the ceil(n/3) slots before
\* it (wrapping) hold the n arguments in order.
C4_RoundTrip ==
    [][\A t \in Threads :
          (pc[t] = "foot" /\ pc'[t] = "idle" /\ ~call[t].intr)
              => Decodes(Log'.slots, grants[call[t].k])]_vars

\* C4 witness: the latest call had nine arguments, was not interleaved, started
\* in the last slot so that its blocks and footer wrapped, and reads back.
C4_Witness ==
    /\ Len(grants) = MaxVarCalls
    /\ LET g == grants[Len(grants)]
       IN  /\ pc[g.t] = "idle" /\ call[g.t].k = Len(grants) /\ ~call[g.t].intr
           /\ Len(g.args) = 9
           /\ CursorNat(g.cursor) % L3_MAX_SLOTS = L3_MAX_SLOTS - 1
           /\ Decodes(Log.slots, g)

\* the cursor value whose slot is the oldest one in a wrapped ring
Oldest == Cursor - L3_MAX_SLOTS

\* the reservations none of whose slots has been reserved again
WhollyPresent == {k \in 1 .. Len(grants) : CursorNat(grants[k].cursor) >= Oldest}

\* the chronologically-earliest of them
EarliestPresent ==
    CHOOSE k \in WhollyPresent :
        \A j \in WhollyPresent : CursorNat(grants[k].cursor) <= CursorNat(grants[j].cursor)

\* the reservation that holds cursor value p
OwnerOf(p) ==
    CHOOSE k \in 1 .. Len(grants) :
        p \in CursorNat(grants[k].cursor) .. (CursorNat(grants[k].cursor) + grants[k].blocks - 1)

NoneLate == \A k \in 1 .. Len(grants) : ~grants[k].late

\* the slot of cursor value p holds what its reservation g stores there: the
\* footer in the last block, up to three arguments in the others
HoldsBlockOf(slots, g, p) ==
    LET b == p - CursorNat(g.cursor)
        n == Len(g.args)
        s == slots[p % L3_MAX_SLOTS]
    IN  IF b = g.blocks - 1
            THEN s.w2 = n /\ s.w1 = g.msg /\ s.w0 = <<L3_GET_TID(g.t), g.loc>>
            ELSE \A i \in 1 .. n : (i - 1) \div 3 = b => WordIs(s, (i - 1) % 3, g.args[i])

\* C26 (amended): in the variadic form, in every quiescent state with
\* cursor > slotCount in which no call stored a slot after it had been lapped,
\* the physical slot cursor mod slotCount is the oldest slot of the ring: the
\* slotCount slots walked forward from it with wraparound hold, in the order
\* of reservation, the blocks of the calls that reserved them.  It is the
\* first slot of the chronologically-earliest wholly-present entry exactly
\* when an entry was granted the cursor value cursor - slotCount; otherwise the
\* walk first meets the trailing blocks of an entry whose leading blocks have
\* been overwritten, and the earliest wholly-present entry starts after that
\* entry's footer.  Every wholly-present entry reads back completely.
C26_OldestSlotAtCursor ==
    (AllReturned /\ Cursor > L3_MAX_SLOTS /\ NoneLate) =>
        /\ \A p \in Oldest .. (Cursor - 1) : HoldsBlockOf(Log.slots, grants[OwnerOf(p)], p)
        /\ \A k \in WhollyPresent : Decodes(Log.slots, grants[k])
        /\ WhollyPresent # {}
        /\ LET g == grants[OwnerOf(Oldest)]
           IN  CursorNat(grants[EarliestPresent].cursor) =
                   IF CursorNat(g.cursor) = Oldest THEN Oldest
                   ELSE CursorNat(g.cursor) + g.blocks

\* C26 witness: a quiescent wrapped ring without lapped writers whose oldest
\* slot is the footer of an entry that has lost its argument block
C26_Witness ==
    /\ AllReturned /\ Cursor > L3_MAX_SLOTS /\ NoneLate
    /\ LET g == grants[OwnerOf(Oldest)]
       IN  /\ CursorNat(g.cursor) < Oldest
           /\ Oldest = CursorNat(g.cursor) + g.blocks - 1
           /\ Log.slots[Cursor % L3_MAX_SLOTS].w2 = Len(g.args)
           /\ CursorNat(grants[EarliestPresent].cursor) = Oldest + 1

\* C26 as stated: in every quiescent state with cursor > slotCount, the slot
\* cursor mod slotCount is the first slot of the chronologically-earliest
\* entry that is wholly present
C26_Original_EarliestEntryAtCursor ==
    (AllReturned /\ Cursor > L3_MAX_SLOTS) =>
        /\ WhollyPresent # {}
        /\ CursorNat(grants[EarliestPresent].cursor) % L3_MAX_SLOTS = Cursor % L3_MAX_SLOTS

\* argument word j of block b of reservation g in a ring that was zero before:
\* the argument, or zero where the block has no argument
ArgWord(g, b, j) ==
    IF 3 * b + j + 1 <= Len(g.args) THEN g.args[3 * b + j + 1] ELSE 0

\* the slot of block b of reservation g holds that call's fields and nothing else
SlotIsOf(slots, g, b) ==
    LET s == slots[CursorNat(g.cursor) + b]
    IN  IF b = CeilThird(Len(g.args))
            THEN s = [w0 |-> <<L3_GET_TID(g.t), g.loc>>, w1 |-> g.msg, w2 |-> Len(g.args)]
            ELSE s = [w0 |-> <<ArgWord(g, b, 0), 0>>, w1 |-> ArgWord(g, b, 1),
                      w2 |-> ArgWord(g, b, 2)]

\* C27: in every state in which all append calls have returned and the slots
\* reserved since initialization do not exceed the capacity, each call granted
\* start cursor s with n arguments has its arguments in slots
\* s .. s + ceil(n/3) - 1 and its footer (its thread id, loc id, message
\* pointer, n) in slot s + ceil(n/3), no field coming from another call; the
\* slot just before the cursor holds the footer of the last granted entry.
C27_QuiescentLayout ==
    (AllReturned /\ Cursor <= L3_MAX_SLOTS) =>
        /\ \A k \in 1 .. Len(grants) :
              \A b \in 0 .. CeilThird(Len(grants[k].args)) :
                  SlotIsOf(Log.slots, grants[k], b)
        /\ Len(grants) > 0 =>
              LET g == grants[Len(grants)]
              IN  Log.slots[Cursor - 1] =
                      [w0 |-> <<L3_GET_TID(g.t), g.loc>>, w1 |-> g.msg, w2 |-> Len(g.args)]

\* C27 witness: two calls of different threads that ran interleaved have
\* returned, they fill the ring exactly, and the later one has three arguments
C27_Witness ==
    /\ AllReturned /\ Cursor = L3_MAX_SLOTS /\ Len(grants) = 2
    /\ grants[1].t # grants[2].t
    /\ call[grants[1].t].intr /\ call[grants[2].t].intr
    /\ Len(grants[2].args) = 3
    /\ SlotIsOf(Log.slots, grants[2], 0) /\ SlotIsOf(Log.slots, grants[2], 1)

(***************************************************************************)
(* SpecWide: one append of either generation into a ring whose cursor has  *)
(* any 64-bit value, the main thread having logged argument-free messages  *)
(* before.                                                                 *)
(***************************************************************************)
\* cursor values: the start, the last slot of the first lap, the last value
\* below 2^32, values above 2^32 (the second in the last slot of its lap),
\* one above 2^63 and the last 64-bit value
WideCursors ==
    { U64Zero,
      <<L3_MAX_SLOTS - 1, 0, 0, 0>>,
      <<LimbBase - 1, LimbBase - 1, 0, 0>>,
      <<1, 0, 1, 0>>,
      <<L3_MAX_SLOTS - 1, 1, 1, 0>>,
      <<5, 0, 0, LimbBase \div 2>>,
      <<LimbBase - 1, LimbBase - 1, LimbBase - 1, LimbBase - 1>> }

\* the slot of an argument-free message of the main thread
PriorSlot(bld) ==
    LET loc == IF bld.loc_enabled THEN CHOOSE l \in Locs : TRUE ELSE L3_ARG_UNUSED
        msg == CHOOSE x \in Msgs : TRUE
    IN  IF bld.gen = "fixed"
            THEN [tid |-> L3_GET_TID(MainThread), loc |-> loc, msg |-> msg,
                  arg1 |-> 0, arg2 |-> 0]
            ELSE [w0 |-> <<L3_GET_TID(MainThread), loc>>, w1 |-> msg, w2 |-> 0]

\* the slots after c such messages
PriorSlots(bld, c) ==
    [s \in Slots |->
        IF U64Less(<<s, 0, 0, 0>>, c) THEN PriorSlot(bld) ELSE ZeroSlot(bld.gen)]

InitWide ==
    \E bld \in Builds("fixed") \cup Builds("variadic"), c \in WideCursors,
       thr \in {{MainThread}, Threads} :
        LET r == l3_init_linked(bld, NoFiles, NULL, "/tmp/l3_test", "ok", 0)
        IN  /\ build = bld
            /\ files = [r.files EXCEPT ![r.l3_log].hdr.idx = c,
                                       ![r.l3_log].slots = PriorSlots(bld, c)]
            /\ l3_log = r.l3_log
            /\ l3_rv = r.rv
            /\ l3_errno = r.errno
            /\ init_calls = <<"/tmp/l3_test">>
            /\ l3_my_tid = [t \in Threads |->
                               IF t = MainThread /\ c # U64Zero THEN L3_GET_TID(t) ELSE 0]
            /\ started = thr
            /\ libc_single_threaded = (thr = {MainThread})
            /\ pc = [t \in Threads |-> "idle"]
            /\ ofs = [t \in Threads |-> 0]
            /\ call = [t \in Threads |-> <<>>]
            /\ grants = <<>>
            /\ NoServer
            /\ live = TRUE /\ mapped_pages = RegionPages(build.gen) /\ os_fault = "ok" /\ deinit_rvs = <<>> /\ layers = <<>>
            /\ NoUtils

\* a thread may start an append
MayAppendWide(t) == pc[t] # "idle" \/ Len(grants) < MaxWideCalls

NextWide ==
    \/ \E t \in Threads : MayAppendWide(t) /\ build.gen = "fixed" /\ l3_log_mmap(t)
    \/ \E t \in Threads : MayAppendWide(t) /\ build.gen = "variadic" /\ l3_log_fn(t)

SpecWide == InitWide /\ [][NextWide]_vars

\* cursor mod capacity, the capacity being a power of two that divides 2^16
CursorMod(c) == c[1] % L3_MAX_SLOTS

\* the block of its entry that the call of thread t stores next
NextBlock(t) ==
    IF pc[t] = "args" THEN (Len(call[t].args) - call[t].i) \div 3
    ELSE grants[call[t].k].blocks - 1

\* C28: for every 64-bit cursor value, also above 2^32 where the variadic
\* path first truncates the cursor to 32 bits, and every argument count 0..9,
\* the first slot an append writes is cursor mod capacity and every slot index
\* it writes lies in 0 .. capacity - 1, also for entries that wrap past the end
\* of the ring: block b of the entry goes to slot (cursor + b) mod capacity.
C28_SlotIndexInRange ==
    \A t \in Threads :
        pc[t] \in {"write", "args", "foot"} =>
            /\ ofs[t] \in 0 .. (L3_MAX_SLOTS - 1)
            /\ ofs[t] = (CursorMod(grants[call[t].k].cursor) + NextBlock(t)) % L3_MAX_SLOTS

\* C28 witness: a variadic call with nine arguments that was granted a cursor
\* above 2^32 in the last slot of the ring is about to store its footer, three
\* slots past the wrap
C28_Witness ==
    \E t \in Threads :
        /\ build.gen = "variadic" /\ pc[t] = "foot"
        /\ Len(call[t].args) = 9
        /\ grants[call[t].k].cursor[3] > 0
        /\ CursorMod(grants[call[t].k].cursor) = L3_MAX_SLOTS - 1
        /\ ofs[t] = 2

(***************************************************************************)
(* SpecReuse: the fixed generation started on a backing file that an       *)
(* earlier run has left at the same path; that run's program was built     *)
(* with or without location encoding.  l3_init opens the file with O_CREAT *)
(* and without O_TRUNC, and the main thread appends.                       *)
(***************************************************************************)
\* what the earlier run appended: nothing, some entries, a ring-ful
PriorCounts == {U64Zero, U64Add(U64Zero, 2), U64Add(U64Zero, L3_MAX_SLOTS)}

\* the file system after a run of program prev that appended c messages
FilesAfterRun(prev, c) ==
    LET r == l3_init_linked(prev, NoFiles, NULL, "/tmp/l3_test", "ok", 0)
    IN  [r.files EXCEPT ![r.l3_log].hdr.idx = c, ![r.l3_log].slots = PriorSlots(prev, c)]

InitReuse ==
    \E bld \in Builds("fixed"), prev \in Builds("fixed"), c \in PriorCounts :
        LET r == l3_init_linked(bld, FilesAfterRun(prev, c), NULL, "/tmp/l3_test", "ok", 0)
        IN  /\ build = bld
            /\ files = r.files
            /\ l3_log = r.l3_log
            /\ l3_rv = r.rv
            /\ l3_errno = r.errno
            /\ init_calls = <<"/tmp/l3_test">>
            /\ l3_my_tid = [t \in Threads |-> 0]
            /\ started = {MainThread}
            /\ libc_single_threaded = TRUE
            /\ pc = [t \in Threads |-> "idle"]
            /\ ofs = [t \in Threads |-> 0]
            /\ call = [t \in Threads |-> <<>>]
            /\ grants = <<>>
            /\ NoServer
            /\ live = TRUE /\ mapped_pages = RegionPages(build.gen) /\ os_fault = "ok"
            /\ deinit_rvs = <<>> /\ layers = <<>> /\ NoUtils

NextReuse == l3_log_mmap(MainThread)

SpecReuse == InitReuse /\ [][NextReuse]_vars

\* this step is the return of an append of thread t
AppendReturns(t) == pc[t] = "write" /\ pc'[t] = "idle"

\* C39: with location encoding off, after any fixed two-argument append the
\* call-site id of the written slot is 0, whatever the slot held before the
\* call (a slot of a reused backing file or a slot overwritten after wrap).
C39_LocZeroWhenOff ==
    [][\A t \in Threads :
          (AppendReturns(t) /\ ~build.loc_enabled) => files'[l3_log].slots[ofs[t]].loc = 0]_vars

(***************************************************************************)
(* SpecInit: a single-threaded process of either generation that calls     *)
(* l3_init, on fresh paths and on paths that hold a log already, and       *)
(* appends in between.                                                     *)
(***************************************************************************)
InitInit ==
    /\ build \in Builds("fixed") \cup Builds("variadic")
    /\ files = NoFiles
    /\ l3_log = NULL
    /\ l3_rv = 0
    /\ l3_errno = 0
    /\ init_calls = <<>>
    /\ l3_my_tid = [t \in Threads |-> 0]
    /\ started = {MainThread}
    /\ libc_single_threaded = TRUE
    /\ pc = [t \in Threads |-> "idle"]
    /\ ofs = [t \in Threads |-> 0]
    /\ call = [t \in Threads |-> <<>>]
    /\ grants = <<>>
    /\ NoServer
    /\ live = FALSE /\ mapped_pages = {} /\ os_fault = "ok" /\ deinit_rvs = <<>> /\ layers = <<>> /\ NoUtils

\* a call of l3_init(path) between two appends of the main thread
l3_init_step(path, os) ==
    /\ pc[MainThread] = "idle"
    /\ Len(init_calls) < MaxInits
    /\ LET r == l3_init_linked(build, files, l3_log, path, os, l3_errno)
       IN  /\ files' = r.files
           /\ l3_log' = r.l3_log
           /\ l3_rv' = r.rv
           /\ l3_errno' = r.errno
    /\ init_calls' = Append(init_calls, path)
    /\ UNCHANGED svrvars
    /\ UNCHANGED <<build, l3_my_tid, started, libc_single_threaded, pc, ofs, call, grants>>

\* the call in a process that does not unmap the log
l3_init_call(path, os) == l3_init_step(path, os) /\ UNCHANGED lcvars

\* l3_log points at a mapping: an append through NULL or MAP_FAILED ends the process
Mapped == l3_log \in Paths

\* the main thread may start another append
MayAppend == pc[MainThread] # "idle" \/ Len(grants) < MaxInitAppends

NextInit ==
    \/ \E path \in Paths \cup {NULL}, os \in OsOutcomes : l3_init_call(path, os)
    \/ Mapped /\ MayAppend /\ build.gen = "fixed" /\ l3_log_mmap(MainThread)
    \/ Mapped /\ MayAppend /\ build.gen = "variadic" /\ l3_log_fn(MainThread)

SpecInit == InitInit /\ [][NextInit]_vars

\* the path holds a log file as a successful l3_init of this build leaves it
HoldsLogStore(p) == files[p] # NoFile /\ files[p].size = Fsize(build.gen) + 1

\* C10: l3_init on a path that already holds a log file leaves every slot of
\* the file as it was, and when it succeeds the write cursor is 0.
C10_ReinitKeepsSlots ==
    [][\A p \in Paths :
          (init_calls' = Append(init_calls, p) /\ HoldsLogStore(p))
              => /\ files'[p].slots = files[p].slots
                 /\ l3_rv' = 0 => (l3_log' = p /\ files'[p].hdr.idx = U64Zero)]_vars

\* C10 witness: l3_init has just succeeded for the second time on a path, the
\* cursor is 0 again, and the slots still hold entries appended in between.
C10_Witness ==
    /\ Len(init_calls) >= 2
    /\ \E k \in 1 .. (Len(init_calls) - 1) : init_calls[k] = init_calls[Len(init_calls)]
    /\ l3_rv = 0 /\ Mapped
    /\ Log.hdr.idx = U64Zero
    /\ Len(grants) >= 1
    /\ \E s \in Slots : Log.slots[s] # ZeroSlot(build.gen)

(***************************************************************************)
(* SpecLife: a single-threaded process of either generation, built for     *)
(* Linux or for macOS, that calls l3_init and l3_deinit and appends while  *)
(* the log is mapped.  l3_deinit is src/l3.c:270-274; the fixed generation *)
(* has the same munmap() call in l3_log_deinit(L3_LOG_MMAP),               *)
(* src/src/l3.c:229.                                                       *)
(***************************************************************************)
AllBuilds ==
    {[gen |-> g, loc_enabled |-> l, loc_elf |-> FALSE, apple |-> a] :
        g \in {"fixed", "variadic"}, l \in BOOLEAN, a \in BOOLEAN}

\* sizeof(*l3_log): L3_LOG ends in slots[0] in src/l3.c:117 and holds
\* slots[L3_MAX_SLOTS] in the fixed generation
SizeofL3Log(gen) == IF gen = "fixed" THEN Fsize(gen) ELSE SizeofHeader

\* munmap(addr, len) with len > 0: EINVAL unless addr is a multiple of the page
\* size; a range that holds no mapping is not an error
munmap(aligned) == IF aligned THEN 0 ELSE -1

\* mutant: the slot array is unmapped, which does not start on a page boundary
l3_deinit_Slots(log) == munmap(FALSE)

\* return munmap(l3_log, sizeof(*l3_log)): NULL and what mmap() returned are page
\* aligned, MAP_FAILED is (void *) -1
l3_deinit(log) == munmap(log # MAP_FAILED)

InitLife ==
    /\ build \in AllBuilds
    /\ files = NoFiles
    /\ l3_log = NULL
    /\ l3_rv = 0
    /\ l3_errno = 0
    /\ init_calls = <<>>
    /\ l3_my_tid = [t \in Threads |-> 0]
    /\ started = {MainThread}
    /\ libc_single_threaded = TRUE
    /\ pc = [t \in Threads |-> "idle"]
    /\ ofs = [t \in Threads |-> 0]
    /\ call = [t \in Threads |-> <<>>]
    /\ grants = <<>>
    /\ NoServer
    /\ live = FALSE /\ mapped_pages = {} /\ os_fault = "ok" /\ deinit_rvs = <<>> /\ layers = <<>> /\ NoUtils

\* l3_init(path): l3_log is assigned once mmap() has been called, and points to a
\* mapping when mmap() succeeded
life_init(path, os) ==
    /\ l3_init_step(path, os)
    /\ os_fault' = os
    /\ live' = IF path # NULL /\ os \in {"open", "lseek", "write"} THEN live
               ELSE l3_log' \in Paths
    /\ mapped_pages' = IF path # NULL /\ os \in {"open", "lseek", "write"} THEN mapped_pages
                       ELSE IF l3_log' \in Paths THEN RegionPages(build.gen) ELSE {}
    /\ UNCHANGED <<deinit_rvs, layers, utvars>>

\* l3_deinit() between two appends of the main thread; the header's page is
\* unmapped when the call succeeds
l3_deinit_call ==
    /\ pc[MainThread] = "idle"
    /\ Len(deinit_rvs) < MaxDeinits
    /\ deinit_rvs' = Append(deinit_rvs, l3_deinit(l3_log))
    /\ live' = (live /\ l3_deinit(l3_log) # 0)
    /\ mapped_pages' = IF l3_deinit(l3_log) = 0
                           THEN mapped_pages \ PagesOf(SizeofL3Log(build.gen))
                           ELSE mapped_pages
    /\ UNCHANGED <<l3vars, svrvars, os_fault, layers, utvars>>

NextLife ==
    \/ \E path \in Paths \cup {NULL}, os \in OsOutcomes : life_init(path, os)
    \/ l3_deinit_call
    \/ live /\ Mapped /\ MayAppend /\ build.gen = "fixed" /\ l3_log_mmap(MainThread)
    \/ live /\ Mapped /\ MayAppend /\ build.gen = "variadic" /\ l3_log_fn(MainThread)

SpecLife == InitLife /\ [][NextLife]_vars

(***************************************************************************)
(* Claims about l3_init and l3_deinit (SpecLife).                          *)
(***************************************************************************)
\* this step is the call l3_init(p)
InitStep(p) == init_calls' = Append(init_calls, p)

\* this step is a call of l3_deinit()
DeinitStep == Len(deinit_rvs') = Len(deinit_rvs) + 1

\* C11: l3_init on a valid path returns 0 when no system call fails, l3_deinit
\* after it returns 0, and a following l3_init on another path that does not
\* exist yet returns 0 with the write cursor 0, whatever was appended before
\* the l3_deinit.
C11_InitDeinitInit ==
    [][/\ \A p \in Paths :
             (InitStep(p) /\ os_fault' = "ok")
                 => (l3_rv' = 0 /\ l3_log' = p /\ files'[p].hdr.idx = U64Zero)
       /\ (DeinitStep /\ live /\ l3_rv = 0)
             => deinit_rvs'[Len(deinit_rvs')] = 0]_vars

\* C11 witness: l3_init on one path, an append, l3_deinit returning 0, then
\* l3_init on another, fresh path has returned 0 and the cursor is 0.
C11_Witness ==
    /\ Len(init_calls) = 2 /\ init_calls[1] # init_calls[2]
    /\ deinit_rvs = <<0>>
    /\ Len(grants) >= 1
    /\ live /\ l3_rv = 0 /\ Mapped
    /\ Log.hdr.idx = U64Zero
    /\ \A s \in Slots : Log.slots[s] = ZeroSlot(build.gen)
    /\ \E s \in Slots : files[init_calls[1]].slots[s] # ZeroSlot(build.gen)

\* the last l3_init call reached its load-base lookup and dladdr() failed there
ResolutionFailed ==
    /\ init_calls # <<>>
    /\ init_calls[Len(init_calls)] # NULL
    /\ os_fault = "dladdr"

\* C12: whenever the load-base lookup fails during l3_init, l3_init returns -1
\* and errno is L3_DLADDR_NOT_FOUND_ERRNO (1234), in the Linux build and in the
\* macOS build alike; it never returns 0 after a failed lookup.
C12_ResolutionFailureReported ==
    ResolutionFailed => (l3_rv = -1 /\ l3_errno = L3_DLADDR_NOT_FOUND_ERRNO)

\* C13: after a successful l3_init with a path that did not exist before, the
\* size of the backing file is exactly the header size plus slot count times 32
\* bytes.
C13_FileSize ==
    [][\A p \in Paths :
          (InitStep(p) /\ files[p] = NoFile /\ l3_rv' = 0)
              => files'[p].size = SizeofHeader + L3_MAX_SLOTS * L3_LOG_ENTRY_SZ]_vars

\* C14: in the fixed and in the variadic generation one slot is 32 bytes, which
\* is also the size of the header (the offset of the slot array).
C14_SlotSizeIsHeaderSize ==
    /\ SizeofEntry(build.gen) = L3_LOG_ENTRY_SZ
    /\ SizeofEntry(build.gen) = SizeofHeader

\* the last l3_deinit returned 0 and no l3_init has mapped a region since
DeinitDone == deinit_rvs # <<>> /\ deinit_rvs[Len(deinit_rvs)] = 0 /\ ~live

\* C37: after l3_deinit has returned 0, no part of the region that l3_init
\* mapped, the header and all the slots, remains mapped in the process.
C37_NothingLeftMapped == DeinitDone => mapped_pages = {}

\* C38: if l3_init returns -1, the global l3_log is what it was before the
\* call: a failed l3_init neither replaces a log that was installed before nor
\* leaves the pointer at a value that a later append would write through.
C38_FailedInitKeepsPointer ==
    [][\A p \in Paths \cup {NULL} :
          (InitStep(p) /\ l3_rv' = -1) => (l3_log' = l3_log /\ l3_log' # MAP_FAILED)]_vars

(***************************************************************************)
(* SpecLog: the lifecycle layers over the backends.  "l3" is the layer of  *)
(* the library, src/src/l3.c:130-254, 329-368, 424-453 with the inline     *)
(* l3_log_fprintf of src/include/l3.h:161-165; "l3_test" is its twin in    *)
(* the test tree, src/tests/l3_test.c, which is built against src/l3.h.    *)
(* Two processes, one per layer, start with the same files and make the    *)
(* same calls with the same arguments; the system calls fail in both or in *)
(* neither.  layers[L] is the state of the process of layer L.             *)
(***************************************************************************)
\* l3_test_log_t, src/tests/l3_test.h:27-35
L3_LOG_UNDEF == 0
L3_LOG_MMAP == 1
L3_LOG_FPRINTF == 2
L3_LOG_WRITE == 3
L3_LOG_WRITE_MSG == 4
L3_LOGTYPE_MAX == 5
L3_LOG_DEFAULT == L3_LOG_MMAP

\* L3_logtype_name[] (src/src/l3.c:130-136, src/tests/l3_test.c:11-17), indexed from 1
L3_logtype_name ==
    <<"L3_LOG_unknown", "L3_LOG_MMAP", "L3_LOG_FPRINTF", "L3_LOG_WRITE", "L3_LOG_WRITE_MSG">>

\* mutant: a value out of range is given the name of the default kind
l3_logtype_name_Default(logtype) ==
    IF logtype < 0 \/ logtype >= L3_LOGTYPE_MAX
        THEN L3_logtype_name[L3_LOG_DEFAULT + 1]
        ELSE L3_logtype_name[logtype + 1]

\* l3_logtype_name(), src/src/l3.c:447-453
l3_logtype_name(logtype) ==
    IF logtype < 0 \/ logtype >= L3_LOGTYPE_MAX
        THEN L3_logtype_name[L3_LOG_UNDEF + 1]
        ELSE L3_logtype_name[logtype + 1]

\* l3_test_logtype_name(), src/tests/l3_test.c:22-28
l3_test_logtype_name(logtype) ==
    IF logtype < 0 \/ logtype >= L3_LOGTYPE_MAX
        THEN L3_logtype_name[L3_LOG_UNDEF + 1]
        ELSE L3_logtype_name[logtype + 1]

Layers == {"l3", "l3_test"}
\* the name function of a layer
NameOf(L, logtype) ==
    IF L = "l3" THEN l3_logtype_name(logtype) ELSE l3_test_logtype_name(logtype)
\* the values of `logtype` a caller passes: the enumerators, one below, one above
Kinds == (L3_LOG_UNDEF - 1) .. L3_LOGTYPE_MAX
\* the values the name of which is asked for
NameArgs == (L3_LOG_UNDEF - 2) .. (L3_LOGTYPE_MAX + 1)
\* the file the text backends log to, and the ring buffer's file
TextPaths == {"/tmp/l3.c-server-test.dat"}
MmapPath == "/tmp/l3_test"
\* descriptors the process can get: 0, 1 and 2 are the standard streams
Fds == 3 .. (2 + MaxLogInits)

\* bytes a text file holds, as the units written to it
TextFile(units) == [exists |-> TRUE, units |-> units]

\* the lowest descriptor that is not open
LowestFd(s) == CHOOSE fd \in Fds : s.fdtab[fd] = 0 /\ \A g \in Fds : g < fd => s.fdtab[g] # 0

\* The process gets a resource: a descriptor ("fd"), a stdio stream over a
\* descriptor ("FILE") or a mapping ("map").  acq lists them in the order in
\* which they were acquired; `held` names the variable of the layer that the
\* result was assigned to, `released` counts how often it has been given back.
Acquire(s, type, kind, path, held, append) ==
    LET fd == IF type = "map" THEN 0 ELSE LowestFd(s)
        id == Len(s.acq) + 1
        a  == [type |-> type, kind |-> kind, path |-> path, held |-> held, fd |-> fd,
               append |-> append, off |-> 0, buf |-> <<>>, open |-> TRUE, released |-> 0]
    IN  [s EXCEPT !.acq = Append(@, a),
                  !.fdtab = IF type = "map" THEN @ ELSE [@ EXCEPT ![fd] = id]]

\* the resource acquired last
LastId(s) == Len(s.acq)

\* the resource that was assigned last to a variable of the layer (0: none)
HeldIn(s, var) ==
    LET ids == {i \in 1 .. Len(s.acq) : s.acq[i].held = var}
    IN  IF ids = {} THEN 0 ELSE CHOOSE i \in ids : \A j \in ids : j <= i

\* open(path, O_RDWR | O_CREAT | flag, 0666) of a text file, flag being O_APPEND or
\* O_TRUNC; fopen(path, "w+") opens with O_TRUNC
OpenText(s, path, trunc) ==
    IF trunc \/ s.text[path] = NoFile
        THEN [s EXCEPT !.text[path] = TextFile(<<>>)]
        ELSE s

\* what a read returns between the old end of a file and a write past it
Hole == [msg |-> 0, arg1 |-> 0, arg2 |-> 0, len |-> 0, chars |-> 0]

\* write(fd, data, len): at the end of the file with O_APPEND, else at the
\* descriptor's offset; -1 when fd is not an open descriptor
WriteUnits(units, off, data) ==
    LET n == Len(units)
        m == Len(data)
    IN  [i \in 1 .. (IF off + m > n THEN off + m ELSE n) |->
            IF i > off /\ i <= off + m THEN data[i - off]
            ELSE IF i <= n THEN units[i] ELSE Hole]

write(s, fd, data) ==
    IF fd \notin Fds \/ s.fdtab[fd] = 0 THEN s
    ELSE LET id  == s.fdtab[fd]
             a   == s.acq[id]
             old == s.text[a.path].units
             at  == IF a.append THEN Len(old) ELSE a.off
         IN  [s EXCEPT !.text[a.path].units = WriteUnits(old, at, data),
                       !.acq[id].off = at + Len(data)]

\* close(fd): 0, or -1 (EBADF) when fd is not an open descriptor
close_rv(s, fd) == IF fd \in Fds /\ s.fdtab[fd] # 0 THEN 0 ELSE -1

close(s, fd) ==
    IF close_rv(s, fd) # 0 THEN s
    ELSE LET id == s.fdtab[fd]
         IN  [s EXCEPT !.fdtab[fd] = 0,
                       !.acq[id].open = IF s.acq[id].type = "fd" THEN FALSE ELSE @,
                       !.acq[id].released = IF s.acq[id].type = "fd" THEN @ + 1 ELSE @]

\* fflush(fh); fclose(fh) of an open stream: the buffered output goes to the
\* stream's descriptor, which is closed; EOF (-1) when either fails
fclose_rv(s, fh) == close_rv(s, s.acq[fh].fd)

fclose(s, fh) ==
    LET a  == s.acq[fh]
        s1 == close(write(s, a.fd, a.buf), a.fd)
    IN  [s1 EXCEPT !.acq[fh].buf = <<>>,
                   !.acq[fh].open = FALSE,
                   !.acq[fh].released = @ + 1]

\* snprintf() returns the length the formatted message has, whatever the buffer holds
snprintf(msg, arg1, arg2) == IF msg = dli_fbase + 16 THEN 37 ELSE 300

\* char msgbuf[255] of l3_log_write()
MsgbufSize == 255

\* snprintf(buf, size, ...) stores at most size - 1 bytes of the message in buf
\* and a terminating NUL after them
StoredChars(size, msglen) == L3_MIN(msglen, size - 1)

\* what l3_log_write() hands to write(): the first L3_MIN(msglen, sizeof(msgbuf))
\* bytes of msgbuf, of which the first `chars` are bytes of the message
WriteUnit(msg, arg1, arg2) ==
    [msg |-> msg, arg1 |-> arg1, arg2 |-> arg2,
     len |-> L3_MIN(snprintf(msg, arg1, arg2), MsgbufSize),
     chars |-> StoredChars(MsgbufSize, snprintf(msg, arg1, arg2))]

\* the message as fprintf() formats it into the stream
FprintfUnit(msg, arg1, arg2) ==
    [msg |-> msg, arg1 |-> arg1, arg2 |-> arg2, len |-> snprintf(msg, arg1, arg2),
     chars |-> snprintf(msg, arg1, arg2)]

\* l3_init(path) in the process of a layer (src/src/l3.c:260-323 for "l3",
\* src/l3.c:147-209 for "l3_test"): the descriptor stays in a local variable and
\* is not closed, the mapping is assigned to l3_log
layer_l3_init(s, path, os) ==
    LET r  == l3_init_linked(s.bld, s.files, s.l3_log, path, os, s.errno)
        s1 == IF path # NULL /\ os # "open"
                  THEN Acquire(s, "fd", L3_LOG_MMAP, path, "none", FALSE) ELSE s
        s2 == IF path # NULL /\ os \in {"ok", "dladdr"}
                  THEN Acquire(s1, "map", L3_LOG_MMAP, path, "l3_log", FALSE) ELSE s1
    IN  [s2 EXCEPT !.files = r.files, !.l3_log = r.l3_log, !.errno = r.errno, !.rv = r.rv]

\* l3_init_fprintf(), src/src/l3.c:329-346 and src/tests/l3_test.c:64-81
l3_init_fprintf(s, path, os) ==
    IF path = NULL THEN [s EXCEPT !.rv = -1]
    ELSE IF os = "open" THEN [s EXCEPT !.l3_log_fh = NULL, !.rv = -1]
    ELSE LET s1 == Acquire(OpenText(s, path, TRUE), "FILE", L3_LOG_FPRINTF, path,
                           "l3_log_fh", FALSE)
         IN  [s1 EXCEPT !.l3_log_fh = LastId(s1), !.rv = 0]

\* l3_init_write(): O_RDWR | O_CREAT | O_APPEND in src/src/l3.c:352-368,
\* O_RDWR | O_CREAT | O_TRUNC in src/tests/l3_test.c:42-58
l3_init_write(s, path, os, trunc) ==
    IF path = NULL THEN [s EXCEPT !.rv = -1]
    ELSE IF os = "open" THEN [s EXCEPT !.l3_log_fd = -1, !.rv = -1]
    ELSE LET s1 == Acquire(OpenText(s, path, trunc), "fd", L3_LOG_WRITE, path,
                           "l3_log_fd", ~trunc)
         IN  [s1 EXCEPT !.l3_log_fd = s1.acq[LastId(s1)].fd, !.rv = 0]

\* the flag of open() in l3_init_write() of the layer
OpensTrunc(L) == L = "l3_test"

\* mutant: an unrecognized kind is taken for the raw-write backend
l3_log_init_NoDefault(L, s, logtype, path, os) ==
    IF logtype = L3_LOG_MMAP THEN layer_l3_init(s, path, os)
    ELSE IF logtype = L3_LOG_FPRINTF THEN l3_init_fprintf(s, path, os)
    ELSE l3_init_write(s, path, os, OpensTrunc(L))

\* l3_log_init(), src/src/l3.c:192-215, and l3_test_log_init(),
\* src/tests/l3_test.c:89-112
l3_log_init(L, s, logtype, path, os) ==
    IF logtype = L3_LOG_MMAP THEN layer_l3_init(s, path, os)
    ELSE IF logtype = L3_LOG_FPRINTF THEN l3_init_fprintf(s, path, os)
    ELSE IF logtype \in {L3_LOG_WRITE, L3_LOG_WRITE_MSG}
        THEN l3_init_write(s, path, os, OpensTrunc(L))
    ELSE [s EXCEPT !.rv = -1]

\* l3_log_deinit(), src/src/l3.c:223-254, and l3_test_log_deinit(),
\* src/tests/l3_test.c:120-151.  munmap(l3_log, sizeof(*l3_log)) gives back the
\* mapping l3_log points to; syncfs() changes nothing the model holds.
l3_log_deinit(L, s, logtype) ==
    LET closed ==
            IF logtype = L3_LOG_MMAP
                THEN LET rv == IF L = "l3" THEN munmap(s.l3_log # MAP_FAILED)
                                           ELSE l3_deinit(s.l3_log)
                         id == HeldIn(s, "l3_log")
                     IN  IF rv = 0 /\ s.l3_log \in Paths /\ id # 0 /\ s.acq[id].open
                             THEN [s EXCEPT !.rv = rv, !.acq[id].open = FALSE,
                                            !.acq[id].released = @ + 1]
                             ELSE [s EXCEPT !.rv = rv]
            ELSE IF logtype = L3_LOG_FPRINTF
                THEN [fclose(s, s.l3_log_fh) EXCEPT !.rv = fclose_rv(s, s.l3_log_fh)]
            ELSE [close(s, s.l3_log_fd) EXCEPT !.rv = close_rv(s, s.l3_log_fd)]
    IN  IF logtype \notin {L3_LOG_MMAP, L3_LOG_FPRINTF, L3_LOG_WRITE}
            THEN [s EXCEPT !.rv = -1]
        ELSE IF closed.rv # 0
            THEN [closed EXCEPT !.name = [arg |-> logtype, str |-> NameOf(L, logtype)]]
        ELSE closed

\* l3_log_write(), src/src/l3.c:424-442 and src/tests/l3_test.c:158-176: a failed
\* write() is reported on stderr only
l3_log_write(s, msg, arg1, arg2) == write(s, s.l3_log_fd, <<WriteUnit(msg, arg1, arg2)>>)

\* l3_log_fprintf(), src/include/l3.h:161-165 and src/tests/l3_test.c:181-185
l3_log_fprintf(s, msg, arg1, arg2) ==
    [s EXCEPT !.acq[s.l3_log_fh].buf = Append(@, FprintfUnit(msg, arg1, arg2))]

\* the builds of the two layers: the library of src/src (fixed) and the test
\* module over src/l3.c (variadic), for the same platform
LayerBuild(L, apple) ==
    [gen |-> IF L = "l3" THEN "fixed" ELSE "variadic",
     loc_enabled |-> FALSE, loc_elf |-> FALSE, apple |-> apple]

\* what the log file of the text backends holds before the process starts
PriorTexts == {NoFile, TextFile(<<WriteUnit(dli_fbase + 16, 1, 1)>>)}

\* src/src/l3.c:142-147 and src/tests/l3_test.c:34-36: l3_log = NULL,
\* l3_log_fh = NULL, l3_log_fd = -1.  sess, n, inits, writes and last record the
\* calls made so far, name the last value l3_logtype_name() was called with and
\* what it returned.
InitLayer(L, apple, prior) ==
    [bld |-> LayerBuild(L, apple),
     files |-> NoFiles, l3_log |-> NULL, errno |-> 0, rv |-> 0,
     l3_log_fh |-> NULL, l3_log_fd |-> -1,
     text |-> [p \in TextPaths |-> prior],
     fdtab |-> [fd \in Fds |-> 0],
     acq |-> <<>>,
     sess |-> [open |-> FALSE, kind |-> L3_LOG_UNDEF, first |-> 0],
     n |-> 0, inits |-> 0, writes |-> 0,
     name |-> [arg |-> L3_LOG_MMAP, str |-> NameOf(L, L3_LOG_MMAP)],
     last |-> [op |-> "none", kind |-> L3_LOG_UNDEF, path |-> NULL]]

InitLog ==
    /\ build = [gen |-> "none", loc_enabled |-> FALSE, loc_elf |-> FALSE, apple |-> FALSE]
    /\ files = NoFiles /\ l3_log = NULL /\ l3_rv = 0 /\ l3_errno = 0 /\ init_calls = <<>>
    /\ l3_my_tid = <<>> /\ started = {} /\ libc_single_threaded = FALSE
    /\ pc = <<>> /\ ofs = <<>> /\ call = <<>> /\ grants = <<>>
    /\ NoServer
    /\ live = FALSE /\ mapped_pages = {} /\ os_fault = "ok" /\ deinit_rvs = <<>> /\ NoUtils
    /\ \E apple \in BOOLEAN, prior \in PriorTexts :
          layers = [L \in Layers |-> InitLayer(L, apple, prior)]

\* the callers open a backend, log to it while l3_log_init() has returned 0, and
\* close it with the kind they opened it with
\* (src/use-cases/client-server-msgs-perf/svmsg_file_server.c:302-305, 396)
NoSession == \A L \in Layers : ~layers[L].sess.open
InSession(kinds) == \A L \in Layers : layers[L].sess.open /\ layers[L].sess.kind \in kinds

\* the paths and the failing system calls a call of l3_log_init() is given
InitPaths(kind) == (IF kind = L3_LOG_MMAP THEN {MmapPath} ELSE TextPaths) \cup {NULL}
InitOutcomes(kind) == IF kind = L3_LOG_MMAP THEN OsOutcomes ELSE {"ok", "open"}

Called(s, op, kind, path) ==
    [s EXCEPT !.n = @ + 1, !.last = [op |-> op, kind |-> kind, path |-> path]]

\* l3_log_init(logtype, path) / l3_test_log_init(logtype, path)
log_init(kind, path, os) ==
    /\ NoSession
    /\ \A L \in Layers : layers[L].inits < MaxLogInits
    /\ layers' = [L \in Layers |->
          LET s == l3_log_init(L, layers[L], kind, path, os)
          IN  [Called(s, "init", kind, path) EXCEPT
                  !.inits = @ + 1,
                  !.sess = [open |-> s.rv = 0, kind |-> kind,
                            first |-> Len(layers[L].acq)]]]
    /\ UNCHANGED <<l3vars, svrvars, live, mapped_pages, os_fault, deinit_rvs, utvars>>

\* l3_log_write(msg, arg1, arg2) of a process built with L3_LOGT_WRITE
log_write(msg, arg1, arg2) ==
    /\ InSession({L3_LOG_WRITE, L3_LOG_WRITE_MSG})
    /\ \A L \in Layers : layers[L].writes < MaxLogWrites
    /\ layers' = [L \in Layers |->
          [Called(l3_log_write(layers[L], msg, arg1, arg2), "write", L3_LOG_WRITE, NULL)
              EXCEPT !.writes = @ + 1]]
    /\ UNCHANGED <<l3vars, svrvars, live, mapped_pages, os_fault, deinit_rvs, utvars>>

\* l3_log_fprintf(msg, arg1, arg2) of a process built with L3_LOGT_FPRINTF
log_fprintf(msg, arg1, arg2) ==
    /\ InSession({L3_LOG_FPRINTF})
    /\ \A L \in Layers : layers[L].writes < MaxLogWrites
    /\ layers' = [L \in Layers |->
          [Called(l3_log_fprintf(layers[L], msg, arg1, arg2), "fprintf", L3_LOG_FPRINTF,
                  NULL)
              EXCEPT !.writes = @ + 1]]
    /\ UNCHANGED <<l3vars, svrvars, live, mapped_pages, os_fault, deinit_rvs, utvars>>

\* l3_log_deinit(logtype) / l3_test_log_deinit(logtype)
log_deinit(kind) ==
    /\ InSession({kind})
    /\ layers' = [L \in Layers |->
          [Called(l3_log_deinit(L, layers[L], kind), "deinit", kind, NULL)
              EXCEPT !.sess.open = FALSE]]
    /\ UNCHANGED <<l3vars, svrvars, live, mapped_pages, os_fault, deinit_rvs, utvars>>

\* l3_logtype_name(logtype) / l3_test_logtype_name(logtype)
logtype_name(logtype) ==
    /\ layers' = [L \in Layers |->
          [layers[L] EXCEPT !.name = [arg |-> logtype, str |-> NameOf(L, logtype)]]]
    /\ UNCHANGED <<l3vars, svrvars, live, mapped_pages, os_fault, deinit_rvs, utvars>>

NextLog ==
    \/ \E kind \in Kinds : \E path \in InitPaths(kind), os \in InitOutcomes(kind) :
          log_init(kind, path, os)
    \/ \E msg \in Msgs, arg1 \in ArgVals, arg2 \in ArgVals : log_write(msg, arg1, arg2)
    \/ \E msg \in Msgs, arg1 \in ArgVals, arg2 \in ArgVals : log_fprintf(msg, arg1, arg2)
    \/ \E kind \in Kinds : log_deinit(kind)
    \/ \E logtype \in NameArgs : logtype_name(logtype)

SpecLog == InitLog /\ [][NextLog]_vars

(***************************************************************************)
(* Claims about the lifecycle layers (SpecLog).                            *)
(***************************************************************************)
\* the kinds l3_log_init() has a case for
Backends == {L3_LOG_MMAP, L3_LOG_FPRINTF, L3_LOG_WRITE, L3_LOG_WRITE_MSG}

\* this step is a call of `op` in the process of layer L
CallStep(L, op) == layers'[L].n = layers[L].n + 1 /\ layers'[L].last.op = op

\* the resources the l3_log_init() call of the open session acquired and assigned
\* to a variable of the layer
HandlesOf(s) == {id \in (s.sess.first + 1) .. Len(s.acq) : s.acq[id].held # "none"}

\* C17: for every backend kind (ring buffer, buffered text, raw write, raw write
\* message-formatting variant) for which l3_log_init returned 0, l3_log_deinit
\* with the same kind returns 0 and releases the handle that this l3_log_init
\* acquired, exactly once.
C17_CloseReleasesHandle ==
    [][\A k \in Backends :
          (CallStep("l3", "deinit") /\ layers["l3"].sess.open /\ layers["l3"].sess.kind = k)
              => /\ layers'["l3"].rv = 0
                 /\ \A id \in HandlesOf(layers["l3"]) :
                       /\ layers'["l3"].acq[id].released = 1
                       /\ ~layers'["l3"].acq[id].open]_vars

\* C18: after the same calls of open, log and close on the same path with the
\* same prior file content, the test-harness module and the production layer
\* have returned the same code and left the same file content.
C18_LayersAgree ==
    /\ layers["l3"].rv = layers["l3_test"].rv
    /\ layers["l3"].text = layers["l3_test"].text
    /\ layers["l3"].files = layers["l3_test"].files

\* C19: the name function returns "L3_LOG_MMAP", "L3_LOG_FPRINTF", "L3_LOG_WRITE"
\* and "L3_LOG_WRITE_MSG" for the four kinds and "L3_LOG_unknown" for every other
\* value: 0, the negative ones, and those at or past L3_LOGTYPE_MAX.
C19_NameOf ==
    \A L \in Layers :
        layers[L].name.str =
            IF layers[L].name.arg = 1 THEN "L3_LOG_MMAP"
            ELSE IF layers[L].name.arg = 2 THEN "L3_LOG_FPRINTF"
            ELSE IF layers[L].name.arg = 3 THEN "L3_LOG_WRITE"
            ELSE IF layers[L].name.arg = 4 THEN "L3_LOG_WRITE_MSG"
            ELSE "L3_LOG_unknown"

\* C19 witness: both name functions have been called with a negative value and
\* have returned the name of the undefined kind.
C19_Witness ==
    \A L \in Layers : layers[L].name.arg < 0 /\ layers[L].name.str = "L3_LOG_unknown"

\* C20: l3_log_init with a kind that is not a recognized backend returns -1 and
\* leaves l3_log, l3_log_fh and l3_log_fd as they were.
C20_UnknownKindRejected ==
    [][(CallStep("l3", "init") /\ layers'["l3"].last.kind \notin Backends)
          => /\ layers'["l3"].rv = -1
             /\ layers'["l3"].l3_log = layers["l3"].l3_log
             /\ layers'["l3"].l3_log_fh = layers["l3"].l3_log_fh
             /\ layers'["l3"].l3_log_fd = layers["l3"].l3_log_fd
             /\ layers'["l3"].acq = layers["l3"].acq]_vars

\* C20 witness: a raw-write session was opened and closed, so that l3_log_fd is
\* not -1 any more, and l3_log_init with L3_LOGTYPE_MAX has then returned -1.
C20_Witness ==
    /\ layers["l3"].last.op = "init"
    /\ layers["l3"].last.kind = L3_LOGTYPE_MAX
    /\ layers["l3"].last.path # NULL
    /\ layers["l3"].rv = -1
    /\ layers["l3"].l3_log_fd # -1
    /\ ~layers["l3"].sess.open

\* the descriptor l3_log_fd of layer state s is open
FdOpen(s) == s.l3_log_fd \in Fds /\ s.fdtab[s.l3_log_fd] # 0

\* where in its file the next write() through l3_log_fd of s stores its data
WriteAt(s) ==
    LET a == s.acq[s.fdtab[s.l3_log_fd]]
    IN  [id |-> s.fdtab[s.l3_log_fd], path |-> a.path,
         off |-> IF a.append THEN Len(s.text[a.path].units) ELSE a.off]

\* byte i of what was written for unit u: a byte of the formatted message, or
\* the NUL that ends the string in msgbuf
ByteOf(u, i) == IF i <= u.chars THEN [msg |-> u.msg, at |-> i] ELSE [msg |-> 0, at |-> 0]

\* C40: each l3_log_write call issues exactly one write of exactly min(L, 255)
\* bytes, L being the full length of the formatted message, and every byte
\* written is a byte of the formatted message in order: the written data is a
\* prefix of the message.
C40_WritesMessagePrefix ==
    [][\A L \in Layers :
          (CallStep(L, "write") /\ FdOpen(layers[L])) =>
              LET w == WriteAt(layers[L])
                  u == layers'[L].text[w.path].units[w.off + 1]
              IN  /\ layers'[L].acq[w.id].off = w.off + 1
                  /\ u.len = L3_MIN(snprintf(u.msg, u.arg1, u.arg2), 255)
                  /\ \A i \in 1 .. u.len : ByteOf(u, i) = [msg |-> u.msg, at |-> i]]_vars

(***************************************************************************)
(* The client/server use case, src/use-cases/client-server-msgs-perf/.     *)
(* Clients: svmsg_file_client.c main(); workers: svr_proc_process_msg();   *)
(* the server's main() joins the workers and prints the summary.  The      *)
(* build is the baseline one (L3_ENABLED off): no log is written.          *)
(***************************************************************************)
\* svmsg_file.h:36
MAX_CLIENTS == 64
\* svmsg_file.h:41-49, req_resp_type_t
REQ_MT_INIT == 1
REQ_MT_INCR == 2
REQ_MT_SET_THROUGHPUT == 3
REQ_MT_QUIT == 4
REQ_MT_EXIT == 5
\* svmsg_file.h:71
REQ_CLIENT_INDEX_UNKNOWN == -1

Workers == 1 .. NumWorkers
\* a client's id is the id of its private queue (positive)
Clients == 1 .. NumClients
\* throughput a client computes from its clock readings; 0 when slower than 1 op/s
Throughputs == {0, 5}

Msg(mtype, clientId, client_idx, counter) ==
    [mtype |-> mtype, clientId |-> clientId, client_idx |-> client_idx, counter |-> counter]

\* memset(&x, 0, sizeof(x)) of a requestMsg / responseMsg / Client_info
ZeroMsg == Msg(0, 0, 0, 0)
ZeroClientInfo ==
    [clientId |-> 0, client_idx |-> 0, client_ctr |-> 0, num_ops |-> 0, throughput |-> 0,
     last_mtype |-> 0]

\* Client_info ActiveClients[MAX_CLIENTS] has static storage: every entry starts
\* zero-filled.  The variable keeps the entries that have been stored into.
ClientAt(clients, i) == IF i \in DOMAIN clients THEN clients[i] ELSE ZeroClientInfo

\* ActiveClients[i] = v
ClientStore(clients, i, v) ==
    [j \in DOMAIN clients \cup {i} |-> IF j = i THEN v ELSE clients[j]]

\* the l3 library is not linked in
NoLog ==
    /\ build = [gen |-> "none", loc_enabled |-> FALSE, loc_elf |-> FALSE, apple |-> FALSE]
    /\ files = NoFiles /\ l3_log = NULL /\ l3_rv = 0 /\ l3_errno = 0 /\ init_calls = <<>>
    /\ l3_my_tid = <<>> /\ started = {} /\ libc_single_threaded = FALSE
    /\ pc = <<>> /\ ofs = <<>> /\ call = <<>> /\ grants = <<>>
    /\ live = FALSE /\ mapped_pages = {} /\ os_fault = "ok" /\ deinit_rvs = <<>> /\ layers = <<>> /\ NoUtils

\* the server after svr_start_threads(), the clients at the start of main(), all
\* started with the same iteration count
InitSvr ==
    /\ NoLog
    /\ serverQ = <<>>
    /\ clientQ = [c \in Clients |-> <<>>]
    /\ NumActiveClientsHWM = 0
    /\ NumActiveClients = 0
    /\ ActiveClients = <<>>
    /\ wpc = [w \in Workers |-> "top"]
    /\ req = [w \in Workers |-> ZeroMsg]
    /\ wresp = [w \in Workers |-> ZeroMsg]
    /\ svr_num_ops = [w \in Workers |-> 0]
    /\ svr_config = [w \in Workers |-> 0]
    /\ mainpc = "join"
    /\ num_ops = 0
    /\ cpc = [c \in Clients |-> "start"]
    /\ creq = [c \in Clients |-> ZeroMsg]
    /\ cresp = [c \in Clients |-> ZeroMsg]
    /\ ictr = [c \in Clients |-> 0]
    /\ \E n \in 0 .. MaxIters : niters = [c \in Clients |-> n]
    /\ assigned = <<>>

(***************************************************************************)
(* The client, svmsg_file_client.c:70-221.                                 *)
(***************************************************************************)
svrState == <<NumActiveClientsHWM, NumActiveClients, ActiveClients, assigned, wpc, req,
              wresp, svr_num_ops, svr_config, mainpc, num_ops>>

\* msgsnd(serverId, &req, ...)
msgsnd_server(m) == serverQ' = Append(serverQ, m)

\* mutant: the client does not wait for the reply to an INCR request
AfterSend_NoWait(mtype) ==
    IF mtype = REQ_MT_INIT THEN "wait_init"
    ELSE IF mtype = REQ_MT_INCR THEN "loop"
    ELSE "exit"

\* where the client goes after msgsnd of a request: to the msgrcv of the reply
\* (lines 136, 176) or, after SET_THROUGHPUT, straight on to the EXIT (line 209)
AfterSend(mtype) ==
    IF mtype = REQ_MT_INIT THEN "wait_init"
    ELSE IF mtype = REQ_MT_INCR THEN "wait_incr"
    ELSE "exit"

\* line 131: req.counter = 0, the counter that client c sends in its INIT
InitCounter(c) == 0

\* lines 125-133: the INIT request
cli_send_init(c) ==
    /\ cpc[c] = "start"
    /\ creq' = [creq EXCEPT ![c] = Msg(REQ_MT_INIT, c, REQ_CLIENT_INDEX_UNKNOWN,
                                       InitCounter(c))]
    /\ msgsnd_server(creq'[c])
    /\ cpc' = [cpc EXCEPT ![c] = AfterSend(REQ_MT_INIT)]
    /\ UNCHANGED <<l3vars, lcvars, svrState, clientQ, cresp, ictr, niters>>

\* lines 135-148: the reply carries the table index; lines 154-165: loop set-up
cli_recv_init(c) ==
    /\ cpc[c] = "wait_init"
    /\ clientQ[c] # <<>>
    /\ cresp' = [cresp EXCEPT ![c] = Head(clientQ[c])]
    /\ clientQ' = [clientQ EXCEPT ![c] = Tail(@)]
    /\ creq' = [creq EXCEPT ![c].client_idx = cresp'[c].client_idx, ![c].mtype = REQ_MT_INCR]
    /\ ictr' = [ictr EXCEPT ![c] = 0]
    /\ cpc' = [cpc EXCEPT ![c] = "loop"]
    /\ UNCHANGED <<l3vars, lcvars, svrState, serverQ, niters>>

\* lines 166-174: one INCR request with the last-known counter
cli_send_incr(c) ==
    /\ cpc[c] = "loop"
    /\ ictr[c] < niters[c]
    /\ creq' = [creq EXCEPT ![c].counter = cresp[c].counter]
    /\ msgsnd_server(creq'[c])
    /\ cpc' = [cpc EXCEPT ![c] = AfterSend(REQ_MT_INCR)]
    /\ UNCHANGED <<l3vars, lcvars, svrState, clientQ, cresp, ictr, niters>>

\* lines 176-190: the echo; ictr++
cli_recv_incr(c) ==
    /\ cpc[c] = "wait_incr"
    /\ clientQ[c] # <<>>
    /\ cresp' = [cresp EXCEPT ![c] = Head(clientQ[c])]
    /\ clientQ' = [clientQ EXCEPT ![c] = Tail(@)]
    /\ ictr' = [ictr EXCEPT ![c] = @ + 1]
    /\ cpc' = [cpc EXCEPT ![c] = "loop"]
    /\ UNCHANGED <<l3vars, lcvars, svrState, serverQ, creq, niters>>

\* lines 191-206: the loop is over; the throughput is sent, no reply is awaited
cli_send_throughput(c, throughput) ==
    /\ cpc[c] = "loop"
    /\ ~(ictr[c] < niters[c])
    /\ creq' = [creq EXCEPT ![c].mtype = REQ_MT_SET_THROUGHPUT, ![c].counter = throughput]
    /\ msgsnd_server(creq'[c])
    /\ cpc' = [cpc EXCEPT ![c] = AfterSend(REQ_MT_SET_THROUGHPUT)]
    /\ UNCHANGED <<l3vars, lcvars, svrState, clientQ, cresp, ictr, niters>>

\* lines 208-220: EXIT is sent; the final printf divides by ictr
cli_send_exit(c) ==
    /\ cpc[c] = "exit"
    /\ creq' = [creq EXCEPT ![c].mtype = REQ_MT_EXIT]
    /\ msgsnd_server(creq'[c])
    /\ cpc' = [cpc EXCEPT ![c] = IF ictr[c] = 0 THEN "SIGFPE" ELSE "done"]
    /\ UNCHANGED <<l3vars, lcvars, svrState, clientQ, cresp, ictr, niters>>

Client(c) ==
    \/ cli_send_init(c)
    \/ cli_recv_init(c)
    \/ cli_send_incr(c)
    \/ cli_recv_incr(c)
    \/ \E throughput \in Throughputs : cli_send_throughput(c, throughput)
    \/ cli_send_exit(c)

(***************************************************************************)
(* The worker thread, svmsg_file_server.c:491-599, with svr_op_ct_init     *)
(* (609-651) and svr_op_incr (661-710).  One step per access to the shared *)
(* counters and per message-queue call.                                    *)
(***************************************************************************)
cliState == <<cpc, creq, cresp, ictr, niters>>
mainState == <<mainpc, num_ops>>

\* mutant: the index is the number of clients that are active
NextIndex_Active(hwm, active) == active

\* resp.client_idx = NumActiveClientsHWM++: the value before the increment
NextIndex(hwm, active) == hwm

\* lines 511-513: if (NumActiveClientsHWM && (NumActiveClients == 0)) goto end
svr_top(w) ==
    /\ wpc[w] = "top"
    /\ wpc' = [wpc EXCEPT ![w] = IF NumActiveClientsHWM # 0 /\ NumActiveClients = 0
                                     THEN "end" ELSE "recv"]
    /\ UNCHANGED <<l3vars, lcvars, serverQ, clientQ, NumActiveClientsHWM, NumActiveClients,
                   ActiveClients, req, wresp, svr_num_ops, svr_config, mainState, cliState,
                   assigned>>

\* line 515: msgrcv(serverId, &req, REQ_MSG_SIZE, 0, 0) takes the oldest message
svr_msgrcv(w) ==
    /\ wpc[w] = "recv"
    /\ serverQ # <<>>
    /\ req' = [req EXCEPT ![w] = Head(serverQ)]
    /\ serverQ' = Tail(serverQ)
    /\ wpc' = [wpc EXCEPT ![w] = "msg"]
    /\ UNCHANGED <<l3vars, lcvars, clientQ, NumActiveClientsHWM, NumActiveClients, ActiveClients,
                   wresp, svr_num_ops, svr_config, mainState, cliState, assigned>>

\* svr_op_ct_init, lines 612-633: the index is taken and the table entry filled.
\* An index past the table is a store outside the array.
svr_op_ct_init_slot(w) ==
    /\ wpc[w] = "msg"
    /\ req[w].mtype = REQ_MT_INIT
    /\ LET idx == NextIndex(NumActiveClientsHWM, NumActiveClients)
       IN  /\ NumActiveClientsHWM' = NumActiveClientsHWM + 1
           /\ wresp' = [wresp EXCEPT ![w] = Msg(req[w].mtype, req[w].clientId, idx,
                                                req[w].counter)]
           /\ assigned' = Append(assigned, <<req[w].clientId, idx>>)
           /\ IF idx \in 0 .. (MAX_CLIENTS - 1)
                  THEN /\ ActiveClients' = ClientStore(ActiveClients, idx,
                              [clientId |-> req[w].clientId, client_idx |-> idx,
                               client_ctr |-> req[w].counter, num_ops |-> 0,
                               throughput |-> 0, last_mtype |-> req[w].mtype])
                       /\ wpc' = [wpc EXCEPT ![w] = "init_reply"]
                  ELSE /\ UNCHANGED ActiveClients
                       /\ wpc' = [wpc EXCEPT ![w] = "out_of_bounds"]
    /\ UNCHANGED <<l3vars, lcvars, serverQ, clientQ, NumActiveClients, req, svr_num_ops, svr_config,
                   mainState, cliState>>

\* svr_op_ct_init, lines 635-650: NumActiveClients++ and the reply
svr_op_ct_init_reply(w) ==
    /\ wpc[w] = "init_reply"
    /\ NumActiveClients' = NumActiveClients + 1
    /\ clientQ' = [clientQ EXCEPT ![wresp[w].clientId] = Append(@, wresp[w])]
    /\ wpc' = [wpc EXCEPT ![w] = "top"]
    /\ UNCHANGED <<l3vars, lcvars, serverQ, NumActiveClientsHWM, ActiveClients, req, wresp,
                   svr_num_ops, svr_config, mainState, cliState, assigned>>

\* mutant: the operation is not counted
IncrClient_NoCount(clientp) ==
    [clientp EXCEPT !.last_mtype = REQ_MT_INCR, !.client_ctr = @ + 1]

\* lines 674-676: last_mtype, ++client_ctr, num_ops++
IncrClient(clientp) ==
    [clientp EXCEPT !.last_mtype = REQ_MT_INCR, !.client_ctr = @ + 1, !.num_ops = @ + 1]

\* svr_op_incr, lines 661-710, and svr_num_ops++ of line 536
svr_op_incr(w) ==
    /\ wpc[w] = "msg"
    /\ req[w].mtype = REQ_MT_INCR
    /\ LET clientp == ClientAt(ActiveClients, req[w].client_idx)
       IN  IF clientp.clientId = req[w].clientId
               THEN /\ ActiveClients' = ClientStore(ActiveClients, req[w].client_idx,
                                                    IncrClient(clientp))
                    /\ wresp' = [wresp EXCEPT ![w] =
                                    Msg(REQ_MT_INCR, req[w].clientId, req[w].client_idx,
                                        IncrClient(clientp).client_ctr)]
                    /\ clientQ' = [clientQ EXCEPT ![req[w].clientId] = Append(@, wresp'[w])]
                    /\ svr_num_ops' = [svr_num_ops EXCEPT ![w] = @ + 1]
                    /\ wpc' = [wpc EXCEPT ![w] = "top"]
               ELSE /\ wpc' = [wpc EXCEPT ![w] = "abort"]
                    /\ UNCHANGED <<ActiveClients, wresp, clientQ, svr_num_ops>>
    /\ UNCHANGED <<l3vars, lcvars, serverQ, NumActiveClientsHWM, NumActiveClients, req, svr_config,
                   mainState, cliState, assigned>>

\* lines 539-543: REQ_MT_SET_THROUGHPUT
svr_set_throughput(w) ==
    /\ wpc[w] = "msg"
    /\ req[w].mtype = REQ_MT_SET_THROUGHPUT
    /\ ActiveClients' = ClientStore(ActiveClients, req[w].client_idx,
                          [ClientAt(ActiveClients, req[w].client_idx)
                              EXCEPT !.throughput = req[w].counter])
    /\ wpc' = [wpc EXCEPT ![w] = "top"]
    /\ UNCHANGED <<l3vars, lcvars, serverQ, clientQ, NumActiveClientsHWM, NumActiveClients, req,
                   wresp, svr_num_ops, svr_config, mainState, cliState, assigned>>

\* mutant: the EXIT that a worker posted is counted as a client's
ExitDecr_Always(active, client_idx) == active - 1

\* mutant: a client's EXIT is not counted
ExitDecr_Never(active, client_idx) == active

\* lines 548-551: if (req.client_idx >= 0) NumActiveClients--
ExitDecr(active, client_idx) == IF client_idx >= 0 THEN active - 1 ELSE active

\* lines 545-563: REQ_MT_EXIT of a client (client_idx >= 0) decrements the count
svr_exit_decr(w) ==
    /\ wpc[w] = "msg"
    /\ req[w].mtype = REQ_MT_EXIT
    /\ NumActiveClients' = ExitDecr(NumActiveClients, req[w].client_idx)
    /\ wpc' = [wpc EXCEPT ![w] = "exit_check"]
    /\ UNCHANGED <<l3vars, lcvars, serverQ, clientQ, NumActiveClientsHWM, ActiveClients, req, wresp,
                   svr_num_ops, svr_config, mainState, cliState, assigned>>

\* line 565: if (NumActiveClients <= 0)
svr_exit_check(w) ==
    /\ wpc[w] = "exit_check"
    /\ wpc' = [wpc EXCEPT ![w] = IF NumActiveClients <= 0 THEN "exit_post" ELSE "top"]
    /\ UNCHANGED <<l3vars, lcvars, serverQ, clientQ, NumActiveClientsHWM, NumActiveClients,
                   ActiveClients, req, wresp, svr_num_ops, svr_config, mainState, cliState,
                   assigned>>

\* mutant: the exiting worker never posts the EXIT for the other workers
ShouldRepost_Never(active) == FALSE

\* line 568: if (NumActiveClients == 0)
ShouldRepost(active) == active = 0

\* lines 568-579: if (NumActiveClients == 0) the EXIT is posted again with
\* client_idx = -1 for the next worker; goto end_forever_loop
svr_exit_post(w) ==
    /\ wpc[w] = "exit_post"
    /\ IF ShouldRepost(NumActiveClients)
           THEN /\ req' = [req EXCEPT ![w].mtype = REQ_MT_EXIT, ![w].client_idx = -1]
                /\ msgsnd_server(req'[w])
           ELSE UNCHANGED <<req, serverQ>>
    /\ wpc' = [wpc EXCEPT ![w] = "end"]
    /\ UNCHANGED <<l3vars, lcvars, clientQ, NumActiveClientsHWM, NumActiveClients, ActiveClients,
                   wresp, svr_num_ops, svr_config, mainState, cliState, assigned>>

\* lines 595-598: end_forever_loop
svr_end(w) ==
    /\ wpc[w] = "end"
    /\ svr_config' = [svr_config EXCEPT ![w] = svr_num_ops[w]]
    /\ wpc' = [wpc EXCEPT ![w] = "done"]
    /\ UNCHANGED <<l3vars, lcvars, serverQ, clientQ, NumActiveClientsHWM, NumActiveClients,
                   ActiveClients, req, wresp, svr_num_ops, mainState, cliState, assigned>>

svr_proc_process_msg(w) ==
    \/ svr_top(w)
    \/ svr_msgrcv(w)
    \/ svr_op_ct_init_slot(w)
    \/ svr_op_ct_init_reply(w)
    \/ svr_op_incr(w)
    \/ svr_set_throughput(w)
    \/ svr_exit_decr(w)
    \/ svr_exit_check(w)
    \/ svr_exit_post(w)
    \/ svr_end(w)

(***************************************************************************)
(* The server's main(), svmsg_file_server.c:361-413, and printSummaryStats *)
(* (923-1001).                                                             *)
(***************************************************************************)
\* mutant: only the first entry is counted
SumNumOps_FirstOnly(clients, num_clients) == ClientAt(clients, 0).num_ops

\* the loop of lines 933-943: num_ops summed over the first num_clients entries
RECURSIVE SumNumOps(_, _)
SumNumOps(clients, num_clients) ==
    IF num_clients = 0 THEN 0
    ELSE ClientAt(clients, num_clients - 1).num_ops + SumNumOps(clients, num_clients - 1)

\* nclients_div: the entries with a throughput other than 0
NClientsDiv(clients, num_clients) ==
    Cardinality({cctr \in 0 .. (num_clients - 1) : ClientAt(clients, cctr).throughput # 0})

\* printSummaryStats: what is printed, or the signal of an integer division by
\* zero (sum_throughput / nclients_div, elapsed_ns / num_ops)
printSummaryStats(clients, num_clients) ==
    LET total == SumNumOps(clients, num_clients)
    IN  IF NClientsDiv(clients, num_clients) = 0 \/ total = 0
            THEN [pc |-> "SIGFPE", num_ops |-> total]
            ELSE [pc |-> "reported", num_ops |-> total]

\* pthread_join of every worker, assert(NumActiveClients == 0), the summary
svr_main ==
    /\ mainpc = "join"
    /\ \A w \in Workers : wpc[w] = "done"
    /\ IF NumActiveClients # 0
           THEN mainpc' = "abort" /\ UNCHANGED num_ops
           ELSE LET r == printSummaryStats(ActiveClients, NumActiveClientsHWM)
                IN  mainpc' = r.pc /\ num_ops' = r.num_ops
    /\ UNCHANGED <<l3vars, lcvars, serverQ, clientQ, NumActiveClientsHWM, NumActiveClients,
                   ActiveClients, wpc, req, wresp, svr_num_ops, svr_config, cliState, assigned>>

NextSvr ==
    \/ \E c \in Clients : Client(c)
    \/ \E w \in Workers : svr_proc_process_msg(w)
    \/ svr_main

SpecSvr == InitSvr /\ [][NextSvr]_vars

\* every thread and process that can take a step eventually takes one
SpecSvrFair ==
    /\ SpecSvr
    /\ \A c \in Clients : WF_vars(Client(c))
    /\ \A w \in Workers : WF_vars(svr_proc_process_msg(w))
    /\ WF_vars(svr_main)

(***************************************************************************)
(* Claims about the client/server use case (SpecSvr, SpecSvrFair).         *)
(***************************************************************************)
\* the client has sent its EXIT
Exited(c) == cpc[c] \in {"done", "SIGFPE"}

\* C6: when all the clients have connected, each has done exactly n INCR round
\* trips and all have sent EXIT, the total operation count that the server
\* reports is (number of clients) * n.
C6_ReportedTotal ==
    \A n \in 0 .. MaxIters :
        (/\ mainpc = "reported"
         /\ \A c \in Clients : Exited(c) /\ niters[c] = n /\ ictr[c] = n)
            => num_ops = NumClients * n

\* C6 witness: the server has reported, every client did MaxIters round trips
\* and sent EXIT, and every worker served some of the INCR requests.
C6_Witness ==
    /\ mainpc = "reported"
    /\ \A c \in Clients : Exited(c) /\ ictr[c] = MaxIters
    /\ \A w \in Workers : svr_config[w] > 0
    /\ num_ops = NumClients * MaxIters

\* C7: the table indices handed out for INIT requests are 0, 1, 2, ... in the
\* order the INITs are processed, none is given to two clients, and the entry
\* of an index stays with its client for good, also after the client's EXIT and
\* also when several workers process INITs at once.
C7_IndicesInOrder ==
    /\ \A k \in 1 .. Len(assigned) :
          /\ assigned[k][2] = k - 1
          /\ ClientAt(ActiveClients, k - 1).clientId = assigned[k][1]
          /\ ClientAt(ActiveClients, k - 1).client_idx = k - 1
          /\ cpc[assigned[k][1]] \notin {"start", "wait_init"}
                => creq[assigned[k][1]].client_idx = k - 1
    /\ \A j, k \in 1 .. Len(assigned) : j # k => assigned[j][1] # assigned[k][1]

\* C7 witness: the second index has just been handed out, after the client of
\* the first one has sent its EXIT and the count of active clients is back to 0.
C7_Witness ==
    /\ Len(assigned) = 2
    /\ assigned[2][2] = 1
    /\ Exited(assigned[1][1])
    /\ NumActiveClients = 0
    /\ \E w \in Workers : wpc[w] = "init_reply" /\ wresp[w].client_idx = 1

\* a worker has processed a client's EXIT and the count of active clients is 0
LastClientExited ==
    \E w \in Workers :
        wpc[w] = "exit_check" /\ req[w].client_idx >= 0 /\ NumActiveClients = 0

AllWorkersLeft == \A w \in Workers : wpc[w] = "done"

\* C8: under fair scheduling, once the EXIT that brings the count of active
\* clients to zero has been processed, every worker thread eventually leaves
\* its receive loop and the main thread's join of the workers completes.
C8_WorkersLeave == LastClientExited ~> (AllWorkersLeft /\ mainpc # "join")

\* C8 witness: all workers have left, the last of them after taking the EXIT
\* with index -1 that another worker had posted, and main() is past its join.
C8_Witness ==
    /\ AllWorkersLeft
    /\ mainpc # "join"
    /\ \E w \in Workers : req[w].client_idx = -1 /\ req[w].mtype = REQ_MT_EXIT
    /\ \A c \in Clients : Exited(c)

\* a request as a client sent it (not the EXIT that workers post for each other)
FromClient(m, c) ==
    m.clientId = c /\ ~(m.mtype = REQ_MT_EXIT /\ m.client_idx = REQ_CLIENT_INDEX_UNKNOWN)

\* a worker holds a request that it has received and not finished processing
Processing(w) == wpc[w] \in {"msg", "init_reply", "exit_check", "exit_post"}

\* requests of client c with a type in mtypes that are queued or being processed
InFlight(c, mtypes) ==
    Cardinality({i \in 1 .. Len(serverQ) :
                    FromClient(serverQ[i], c) /\ serverQ[i].mtype \in mtypes})
    + Cardinality({w \in Workers :
                    Processing(w) /\ FromClient(req[w], c) /\ req[w].mtype \in mtypes})

AllTypes == {REQ_MT_INIT, REQ_MT_INCR, REQ_MT_SET_THROUGHPUT, REQ_MT_EXIT}

\* C9 as stated: at no time are two requests of the same client queued or being
\* processed by the workers.
C9_Original_OneRequestInFlight == \A c \in Clients : InFlight(c, AllTypes) <= 1

\* C9 amended: a client has at most one INIT or INCR request queued or being
\* processed, and sends nothing else until it has the reply; only its last two
\* requests, SET_THROUGHPUT and EXIT, which are not replied to, can be queued
\* or processed at the same time.
C9_OneAnsweredRequestInFlight ==
    \A c \in Clients :
        /\ InFlight(c, {REQ_MT_INIT, REQ_MT_INCR}) <= 1
        /\ InFlight(c, {REQ_MT_INIT, REQ_MT_INCR}) = 1 =>
              (InFlight(c, AllTypes) = 1 /\ clientQ[c] = <<>>)
        /\ InFlight(c, {REQ_MT_SET_THROUGHPUT}) <= 1
        /\ InFlight(c, {REQ_MT_EXIT}) <= 1
        /\ Len(clientQ[c]) <= 1

\* C9 witness: two workers process the SET_THROUGHPUT and the EXIT of the same
\* client at the same time.
C9_Witness ==
    \E c \in Clients, w1, w2 \in Workers :
        /\ w1 # w2
        /\ wpc[w1] = "msg" /\ FromClient(req[w1], c) /\ req[w1].mtype = REQ_MT_SET_THROUGHPUT
        /\ wpc[w2] = "msg" /\ FromClient(req[w2], c) /\ req[w2].mtype = REQ_MT_EXIT

\* the count of active clients has been non-zero: a worker has gone through
\* NumActiveClients++ and sent the INIT reply, which is in the client's queue
\* or has been received
EverLive == \E c \in Clients : clientQ[c] # <<>> \/ cpc[c] \notin {"start", "wait_init"}

\* C29: for any number of worker threads and any interleaving, no worker
\* leaves its receive loop unless the count of active clients has been
\* non-zero earlier in the run and has returned to zero (the worker leaves on
\* reading the count as zero).
C29_LeavesOnlyAfterLive ==
    [][\A w \in Workers : (wpc[w] # "end" /\ wpc'[w] = "end") => EverLive]_vars

\* C30: once all the worker threads have terminated the count of active
\* clients is exactly 0, so the assertion in main after the joins does not
\* fail, whatever the number of workers and clients and the interleaving of
\* their messages.
C30_CountZeroAfterWorkers ==
    /\ AllWorkersLeft => NumActiveClients = 0
    /\ mainpc # "abort"

\* C30 witness: every client was served and has sent its EXIT, all the workers
\* have terminated, main is past its assertion with the count at 0
C30_Witness ==
    /\ AllWorkersLeft
    /\ mainpc \in {"reported", "SIGFPE"}
    /\ NumActiveClientsHWM = NumClients
    /\ NumActiveClients = 0
    /\ \A c \in Clients : Exited(c)

\* the INIT of client c has been given its table index (line 623)
InitTaken(c) == \E k \in 1 .. Len(assigned) : assigned[k][1] = c

\* the EXIT that client c sent is queued or received and not yet counted (line 551)
ExitPending(c) ==
    \/ \E i \in 1 .. Len(serverQ) :
          FromClient(serverQ[i], c) /\ serverQ[i].mtype = REQ_MT_EXIT
    \/ \E w \in Workers :
          wpc[w] = "msg" /\ FromClient(req[w], c) /\ req[w].mtype = REQ_MT_EXIT

\* the EXIT of client c has been processed
ExitCounted(c) == Exited(c) /\ ~ExitPending(c)

\* the clients whose INIT has been processed and whose EXIT has not
LiveClients == {c \in Clients : InitTaken(c) /\ ~ExitCounted(c)}

\* no worker is inside svr_op_ct_init or the REQ_MT_EXIT case of a client
NoInitOrExitInProgress ==
    \A w \in Workers :
        /\ wpc[w] # "init_reply"
        /\ wpc[w] = "msg" => req[w].mtype \notin {REQ_MT_INIT, REQ_MT_EXIT}

\* worker w is in the REQ_MT_EXIT case with the EXIT of a client
InClientExit(w) ==
    /\ wpc[w] \in {"msg", "exit_check"}
    /\ req[w].mtype = REQ_MT_EXIT
    /\ req[w].client_idx >= 0

ConnectionCounts ==
    /\ 0 <= NumActiveClients
    /\ NumActiveClients <= NumActiveClientsHWM
    /\ NoInitOrExitInProgress => NumActiveClients = Cardinality(LiveClients)

ConnectionSteps ==
    /\ NumActiveClientsHWM' >= NumActiveClientsHWM
    /\ \A w \in Workers :
          (InClientExit(w) /\ wpc'[w] # wpc[w]) => ActiveClients' = ActiveClients

\* C31: in every reachable state 0 <= count of live clients <= high-water
\* mark; the high-water mark never decreases; whenever no INIT or EXIT is
\* being processed the count of live clients is the number of clients whose
\* INIT has been processed and whose EXIT has not; processing a client's EXIT
\* leaves that client's table entry (the whole table) as it was.
C31_ConnectionState == []ConnectionCounts /\ [][ConnectionSteps]_vars

\* C31 witness: one client's EXIT has been processed after its INCR requests,
\* its entry still holds them, the other client is live, nothing in progress
C31_Witness ==
    /\ NoInitOrExitInProgress
    /\ NumActiveClients = 1
    /\ NumActiveClientsHWM = 2
    /\ \E c \in Clients :
          /\ ExitCounted(c)
          /\ \E i \in DOMAIN ActiveClients :
                ActiveClients[i].clientId = c /\ ActiveClients[i].num_ops = MaxIters
    /\ Cardinality(LiveClients) = 1

\* the INCR requests that are queued or that a worker has received
IncrRequests ==
    {serverQ[i] : i \in {j \in 1 .. Len(serverQ) : serverQ[j].mtype = REQ_MT_INCR}}
    \cup {req[w] : w \in {v \in Workers : wpc[v] = "msg" /\ req[v].mtype = REQ_MT_INCR}}

\* C32: when every client follows the protocol (its INCR requests carry the
\* table index returned for its own INIT), the assertion in svr_op_incr that
\* the table entry's client id is the request's client id never fails, with
\* several worker threads and in any interleaving with the INITs of other
\* clients: no worker aborts, and every INCR request on its way meets an entry
\* with its client id.
C32_IncrAssertionHolds ==
    /\ \A w \in Workers : wpc[w] # "abort"
    /\ \A m \in IncrRequests :
          /\ m.client_idx \in 0 .. (MAX_CLIENTS - 1)
          /\ ClientAt(ActiveClients, m.client_idx).clientId = m.clientId

\* C32 witness: a worker has passed the assertion for a client's INCR and sent
\* the reply while another worker is inside svr_op_ct_init for another client
C32_Witness ==
    \E w1, w2 \in Workers, c \in Clients :
        /\ w1 # w2
        /\ svr_num_ops[w1] > 0 /\ wpc[w1] = "top"
        /\ wresp[w1].mtype = REQ_MT_INCR /\ wresp[w1].clientId = c
        /\ clientQ[c] # <<>> /\ cpc[c] = "wait_incr"
        /\ wpc[w2] = "init_reply" /\ wresp[w2].clientId # c

\* the server's record of client c (the entry of the index c was told)
EntryOf_Client(c) == ClientAt(ActiveClients, creq[c].client_idx)

\* the client is about to send a request after the reply to its INIT
AboutToSend(c) == cpc[c] \in {"loop", "exit"}

\* C33: for every client the reply to its k-th INCR carries counter = (the
\* counter sent in INIT) + k, which is the value the server stores for the
\* client and the number of operations the server has counted for it plus the
\* initial value; the client's last-known counter equals the server's stored
\* counter every time the client sends a request.
C33_CounterEcho ==
    \A c \in Clients :
        /\ \A i \in 1 .. Len(clientQ[c]) :
              clientQ[c][i].mtype = REQ_MT_INCR =>
                  /\ clientQ[c][i].counter = InitCounter(c) + ictr[c] + 1
                  /\ clientQ[c][i].counter = EntryOf_Client(c).client_ctr
                  /\ clientQ[c][i].counter = EntryOf_Client(c).num_ops + InitCounter(c)
        /\ AboutToSend(c) =>
              /\ cresp[c].counter = EntryOf_Client(c).client_ctr
              /\ cresp[c].counter = InitCounter(c) + ictr[c]
              /\ EntryOf_Client(c).clientId = c

\* C33 witness: a client has the reply to its last INCR in its queue while the
\* other client has received its own and is about to send its next request
C33_Witness ==
    \E c, d \in Clients :
        /\ c # d
        /\ clientQ[c] # <<>> /\ Head(clientQ[c]).mtype = REQ_MT_INCR
        /\ Head(clientQ[c]).counter = MaxIters
        /\ AboutToSend(d) /\ ictr[d] = MaxIters /\ cresp[d].counter = MaxIters

(***************************************************************************)
(* SpecFull: the same server and clients late in a run in which clients    *)
(* have come and gone one after the other without the count of live        *)
(* clients returning to zero, so that the table is nearly used up: the     *)
(* earlier clients hold the entries below h and have exited, client 1 has  *)
(* just received the reply to its INIT with index h, the other clients     *)
(* have not started.                                                       *)
(***************************************************************************)
\* the queue id of the earlier client that was given index i
PriorId(i) == NumClients + 1 + i

\* the entry of an earlier client after its n INCR requests, its
\* SET_THROUGHPUT and its EXIT (lines 630-633, 674-676, 541)
PriorEntry(i, n) ==
    [clientId |-> PriorId(i), client_idx |-> i, client_ctr |-> n, num_ops |-> n,
     throughput |-> IF n = 0 THEN 0 ELSE 5,
     last_mtype |-> IF n = 0 THEN REQ_MT_INIT ELSE REQ_MT_INCR]

\* the indices that the earlier clients were given
TableFill == {MAX_CLIENTS - 2, MAX_CLIENTS - 1}

InitFull ==
    /\ NoLog
    /\ \E h \in TableFill, n \in 1 .. MaxIters :
          /\ NumActiveClientsHWM = h + 1
          /\ ActiveClients =
                [i \in 0 .. h |->
                    IF i < h THEN PriorEntry(i, n)
                    ELSE [clientId |-> 1, client_idx |-> h, client_ctr |-> InitCounter(1),
                          num_ops |-> 0, throughput |-> 0, last_mtype |-> REQ_MT_INIT]]
          /\ assigned = [k \in 1 .. (h + 1) |->
                            IF k <= h THEN <<PriorId(k - 1), k - 1>> ELSE <<1, h>>]
          /\ svr_num_ops = [w \in Workers |-> IF w = 1 THEN h * n ELSE 0]
          /\ niters = [c \in Clients |-> n]
          /\ creq = [c \in Clients |->
                        IF c = 1 THEN Msg(REQ_MT_INCR, 1, h, InitCounter(1)) ELSE ZeroMsg]
          /\ cresp = [c \in Clients |->
                        IF c = 1 THEN Msg(REQ_MT_INIT, 1, h, InitCounter(1)) ELSE ZeroMsg]
    /\ NumActiveClients = 1
    /\ serverQ = <<>>
    /\ clientQ = [c \in Clients |-> <<>>]
    /\ wpc = [w \in Workers |-> "top"]
    /\ req = [w \in Workers |-> ZeroMsg]
    /\ wresp = [w \in Workers |-> ZeroMsg]
    /\ svr_config = [w \in Workers |-> 0]
    /\ mainpc = "join"
    /\ num_ops = 0
    /\ cpc = [c \in Clients |-> IF c = 1 THEN "loop" ELSE "start"]
    /\ ictr = [c \in Clients |-> 0]

SpecFull == InitFull /\ [][NextSvr]_vars

\* C34: every table index the server assigns on INIT is less than the table
\* size of 64, so no INIT, INCR, SET_THROUGHPUT or EXIT reads or writes a
\* client record outside the 64-entry table, whatever number of clients
\* connect during one run.
C34_IndexInTable ==
    /\ \A k \in 1 .. Len(assigned) : assigned[k][2] < MAX_CLIENTS
    /\ \A w \in Workers : wpc[w] # "out_of_bounds"
    /\ \A w \in Workers :
          (wpc[w] = "msg" /\ req[w].mtype \in {REQ_MT_INCR, REQ_MT_SET_THROUGHPUT})
              => req[w].client_idx < MAX_CLIENTS

\* client c has placed its INIT on the server's queue and waits for the reply
AwaitsInit(c) == cpc[c] = "wait_init"

\* client c has received the reply that carries its table index
HasIndex(c) ==
    /\ cpc[c] \notin {"start", "wait_init"}
    /\ \E k \in 1 .. Len(assigned) : assigned[k] = <<c, creq[c].client_idx>>

\* the INIT of client c is still queued, the count of live clients is back at
\* zero and every worker thread has left its loop: nobody will receive it
LeftUnserved(c) ==
    /\ AllWorkersLeft
    /\ NumActiveClients = 0
    /\ NumActiveClientsHWM > 0
    /\ \E i \in 1 .. Len(serverQ) :
          serverQ[i].mtype = REQ_MT_INIT /\ serverQ[i].clientId = c

\* C35 as stated: under fair scheduling every client that has placed its INIT
\* on the server's request queue eventually receives the response carrying its
\* table index, also when its INIT is enqueued while other clients are exiting.
C35_Original_InitAnswered == \A c \in Clients : AwaitsInit(c) ~> HasIndex(c)

\* C35 amended: under fair scheduling every client that has placed its INIT on
\* the server's request queue eventually receives the response carrying its
\* table index, unless the count of live clients returns to zero and all the
\* worker threads leave their loop while the INIT is still queued (the other
\* clients have exited): that INIT is never received.
C35_InitAnsweredWhileServed ==
    \A c \in Clients : AwaitsInit(c) ~> (HasIndex(c) \/ LeftUnserved(c))

\* C35 witness: a client got its index although its INIT was processed after
\* the count of live clients had gone back to zero with the other client's EXIT
C35_Witness ==
    \E c, d \in Clients :
        /\ c # d
        /\ HasIndex(c) /\ creq[c].client_idx = 1
        /\ ExitCounted(d)
        /\ \E w \in Workers : wpc[w] = "done"

\* num_threads_div, lines 949-960: the worker threads that processed operations
NumThreadsDiv(config) == Cardinality({tctr \in DOMAIN config : config[tctr] # 0})

\* main() is at or past its call of printSummaryStats in a run in which a
\* client connected and exited
SummaryDue ==
    /\ AllWorkersLeft
    /\ NumActiveClients = 0
    /\ \E c \in Clients : ExitCounted(c)

\* C36: in every run in which at least one client connected and exited, the
\* server's summary is well defined for every iteration count the clients may
\* use, 0 included: none of its divisions (average client throughput, average
\* time per operation, average operations per thread) has a zero divisor.
C36_SummaryWellDefined ==
    /\ SummaryDue =>
          /\ NClientsDiv(ActiveClients, NumActiveClientsHWM) # 0
          /\ SumNumOps(ActiveClients, NumActiveClientsHWM) # 0
          /\ NumThreadsDiv(svr_config) # 0
    /\ mainpc # "SIGFPE"

(***************************************************************************)
(* The formatting utility, src/use-cases/utils/size_str.c with the macros  *)
(* of src/tests/use-cases/utils/size_str.h.  A size_t is kept as NLimbs    *)
(* limbs to the base 1000, least significant first, since the values       *)
(* reach 2^64; no operation of the utility overflows 64 bits.  Each        *)
(* operation binds its operands to values before it walks the limbs.       *)
(***************************************************************************)
BigBase == 10 ^ 3

\* SIZE_MAX, 2^64 - 1, and the number of limbs it takes
SizeMax == <<615, 551, 709, 73, 744, 446, 18>>
NLimbs == Len(SizeMax)
Limbs == 1 .. NLimbs

\* the size_t of a number the model can hold in one integer
RECURSIVE OfFrom(_, _)
OfFrom(n, i) == IF i > NLimbs THEN <<>> ELSE <<n % BigBase>> \o OfFrom(n \div BigBase, i + 1)

BigOf(n) == OfFrom(n, 1)

\* x + y
RECURSIVE AddFrom(_, _, _, _)
AddFrom(x, y, i, c) ==
    IF i > NLimbs THEN <<>>
    ELSE <<(x[i] + y[i] + c) % BigBase>> \o AddFrom(x, y, i + 1, (x[i] + y[i] + c) \div BigBase)

BigAdd(x, y) == CHOOSE r \in {AddFrom(a, b, 1, 0) : a \in {x}, b \in {y}} : TRUE

\* x - y, for y <= x
RECURSIVE SubFrom(_, _, _, _)
SubFrom(x, y, i, b) ==
    IF i > NLimbs THEN <<>>
    ELSE <<(x[i] - y[i] - b + BigBase) % BigBase>>
             \o SubFrom(x, y, i + 1, IF x[i] - y[i] - b < 0 THEN 1 ELSE 0)

BigSub(x, y) == CHOOSE r \in {SubFrom(a, b, 1, 0) : a \in {x}, b \in {y}} : TRUE

\* x * m, for a factor m of at most a few thousand
RECURSIVE MulFrom(_, _, _, _)
MulFrom(x, m, i, c) ==
    IF i > NLimbs THEN <<>>
    ELSE <<(x[i] * m + c) % BigBase>> \o MulFrom(x, m, i + 1, (x[i] * m + c) \div BigBase)

BigMul(x, m) == CHOOSE r \in {MulFrom(a, m, 1, 0) : a \in {x}} : TRUE

\* x / d, for a divisor d of at most a few thousand: long division from the top limb
RECURSIVE DivFrom(_, _, _, _)
DivFrom(x, d, i, r) ==
    IF i = 0 THEN <<>>
    ELSE DivFrom(x, d, i - 1, (r * BigBase + x[i]) % d) \o <<(r * BigBase + x[i]) \div d>>

BigDiv(x, d) == CHOOSE r \in {DivFrom(a, d, NLimbs, 0) : a \in {x}} : TRUE

\* x < y
BigLess(x, y) == \E i \in Limbs : x[i] < y[i] /\ \A j \in Limbs : j > i => x[j] = y[j]

BigZero == BigOf(0)

\* the number, when it is below 10^9
BigInt(x) == x[1] + BigBase * (x[2] + BigBase * x[3])

\* A unit of a ladder is step^k: the macros multiply and divide by it in k
\* rounds, which gives what one 64-bit operation gives.
RECURSIVE TimesUnit(_, _, _)
TimesUnit(x, step, k) == IF k = 0 THEN x ELSE TimesUnit(BigMul(x, step), step, k - 1)

RECURSIVE DivUnit(_, _, _)
DivUnit(x, step, k) == IF k = 0 THEN x ELSE DivUnit(BigDiv(x, step), step, k - 1)

\* x % unit
ModUnit(x, step, k) == BigSub(x, TimesUnit(DivUnit(x, step, k), step, k))

\* mutant: the fraction is taken in thousandths
FractOf_Thousandths(x, step, k) == DivUnit(BigMul(ModUnit(x, step, k), 1000), step, k)

\* SZ_B_TO_KiB_FRACT(x) and its siblings: (100 * ((x) % unit)) / unit
FractOf(x, step, k) == DivUnit(BigMul(ModUnit(x, step, k), 100), step, k)

\* size_str.h:18-21 and 42-45
SZ_KiB == TimesUnit(BigOf(1), 1024, 1)
SZ_MiB == TimesUnit(BigOf(1), 1024, 2)
SZ_GiB == TimesUnit(BigOf(1), 1024, 3)
SZ_TiB == TimesUnit(BigOf(1), 1024, 4)
VAL_OneK == TimesUnit(BigOf(1), 1000, 1)
VAL_Million == TimesUnit(BigOf(1), 1000, 2)
VAL_Billion == TimesUnit(BigOf(1), 1000, 3)
VAL_Trillion == TimesUnit(BigOf(1), 1000, 4)

SIZE_TO_STR_LEN == 25

\* the branch of the if-chain that is taken for a value: 0 is the else branch
Rung(x, step) ==
    IF ~BigLess(x, TimesUnit(BigOf(1), step, 4)) THEN 4
    ELSE IF ~BigLess(x, TimesUnit(BigOf(1), step, 3)) THEN 3
    ELSE IF ~BigLess(x, TimesUnit(BigOf(1), step, 2)) THEN 2
    ELSE IF ~BigLess(x, TimesUnit(BigOf(1), step, 1)) THEN 1
    ELSE 0

\* unit_val, frac_val and is_approx as one branch of the if-chain assigns them
Parts(x, step, k) ==
    IF k = 0
        THEN [unit_val |-> x, frac_val |-> BigZero, is_approx |-> FALSE]
        ELSE [unit_val |-> DivUnit(x, step, k),
              frac_val |-> FractOf(x, step, k),
              is_approx |-> BigLess(TimesUnit(DivUnit(x, step, k), step, k), x)]

\* "%ld" and "%02ld" of a value below 10^9
Fmt_ld(x) == ToString(BigInt(x))
Fmt_02ld(x) == IF BigInt(x) < 10 THEN "0" \o ToString(BigInt(x)) ELSE ToString(BigInt(x))

\* snprintf(outbuf, outbuflen, ...): at most outbuflen - 1 characters and the NUL
Snprintf(outbuflen, s) ==
    IF outbuflen = 0 THEN "" 
    ELSE IF Len(s) > outbuflen - 1 THEN SubSeq(s, 1, outbuflen - 1) ELSE s

SizeUnits == <<"KiB", "MiB", "GiB", "TiB">>
ValueUnits == <<"K", "Million", "Billion", "Trillion">>

\* mutant: the tilde form is chosen by the fraction alone
Render_FractionOnly(outbuflen, p, units) ==
    IF p.frac_val # BigZero
        THEN Snprintf(outbuflen,
                      "~" \o Fmt_ld(p.unit_val) \o "." \o Fmt_02ld(p.frac_val) \o " " \o units)
        ELSE Snprintf(outbuflen, Fmt_ld(p.unit_val) \o " " \o units)

\* size_str.c:69-73 and 131-134
Render(outbuflen, p, units) ==
    IF p.frac_val # BigZero \/ p.is_approx
        THEN Snprintf(outbuflen,
                      "~" \o Fmt_ld(p.unit_val) \o "." \o Fmt_02ld(p.frac_val) \o " " \o units)
        ELSE Snprintf(outbuflen, Fmt_ld(p.unit_val) \o " " \o units)

\* what a call leaves: the process aborted in assert(), or the buffer's content
Aborted == [aborted |-> TRUE, out |-> ""]
Returned(s) == [aborted |-> FALSE, out |-> s]

\* size_to_str(), size_str.c:32-75
size_to_str(outbuflen, size) ==
    IF outbuflen < SIZE_TO_STR_LEN THEN Aborted
    ELSE LET k == Rung(size, 1024)
         IN  Returned(Render(outbuflen, Parts(size, 1024, k),
                             IF k = 0 THEN "bytes" ELSE SizeUnits[k]))

\* mutant: a value below 1000 is printed as a bare number
value_to_str_Bare(outbuflen, value) ==
    IF outbuflen < SIZE_TO_STR_LEN THEN Aborted
    ELSE LET k == Rung(value, 1000)
         IN  IF k = 0 THEN Returned(Snprintf(outbuflen, Fmt_ld(value)))
             ELSE Returned(Render(outbuflen, Parts(value, 1000, k), ValueUnits[k]))

\* value_to_str(), size_str.c:95-140
value_to_str(outbuflen, value) ==
    IF outbuflen < SIZE_TO_STR_LEN THEN Aborted
    ELSE LET k == Rung(value, 1000)
         IN  IF k = 0 THEN Returned("")
             ELSE Returned(Render(outbuflen, Parts(value, 1000, k), ValueUnits[k]))

\* size_str(sz) and value_str(val), size_str.h:86-94 and 126-134: the call on a
\* buffer of SIZE_TO_STR_LEN bytes
size_str(size) == size_to_str(SIZE_TO_STR_LEN, size).out
value_str(value) == value_to_str(SIZE_TO_STR_LEN, value).out

\* a format string with one %s: the text before it and the text after it
Fmts == {<<"", "">>, <<"size=", " used">>}

\* size_to_fmtstr(), size_str.c:82-87
size_to_fmtstr(outbuflen, fmtstr, size) ==
    Returned(Snprintf(outbuflen, fmtstr[1] \o size_str(size) \o fmtstr[2]))

\* value_to_fmtstr(), size_str.c:147-152
value_to_fmtstr(outbuflen, fmtstr, value) ==
    Returned(Snprintf(outbuflen, fmtstr[1] \o value_str(value) \o fmtstr[2]))

(***************************************************************************)
(* SpecSize: a process that makes one call of the utility, with a value, a *)
(* buffer length and a format drawn from the sets below.                   *)
(***************************************************************************)
\* size_to_str_cases[] of src/tests/unit/size_str-test.c:38-74
size_to_str_cases ==
    << [size |-> BigOf(129), expstr_b |-> "129 bytes", expstr_v |-> ""],
       [size |-> SZ_KiB, expstr_b |-> "1 KiB", expstr_v |-> "~1.02 K"],
       [size |-> VAL_OneK, expstr_b |-> "1000 bytes", expstr_v |-> "1 K"],
       [size |-> BigAdd(SZ_KiB, BigOf(128)), expstr_b |-> "~1.12 KiB", expstr_v |-> "~1.15 K"],
       [size |-> BigAdd(SZ_KiB, BigDiv(BigMul(SZ_KiB, 25), 100)),
        expstr_b |-> "~1.25 KiB", expstr_v |-> "~1.28 K"],
       [size |-> BigMul(SZ_KiB, 2), expstr_b |-> "2 KiB", expstr_v |-> "~2.04 K"],
       [size |-> BigMul(VAL_OneK, 2), expstr_b |-> "~1.95 KiB", expstr_v |-> "2 K"],
       [size |-> VAL_Million, expstr_b |-> "~976.56 KiB", expstr_v |-> "1 Million"],
       [size |-> SZ_MiB, expstr_b |-> "1 MiB", expstr_v |-> "~1.04 Million"],
       [size |-> BigAdd(SZ_MiB, BigOf(128)), expstr_b |-> "~1.00 MiB",
        expstr_v |-> "~1.04 Million"],
       [size |-> BigAdd(SZ_MiB, BigDiv(BigMul(SZ_MiB, 5), 10)),
        expstr_b |-> "~1.50 MiB", expstr_v |-> "~1.57 Million"],
       [size |-> BigAdd(VAL_Million, VAL_OneK), expstr_b |-> "~977.53 KiB",
        expstr_v |-> "~1.00 Million"],
       [size |-> BigSub(BigSub(VAL_Billion, VAL_Million), BigMul(VAL_OneK, 2)),
        expstr_b |-> "~952.71 MiB", expstr_v |-> "~998.99 Million"],
       [size |-> VAL_Billion, expstr_b |-> "~953.67 MiB", expstr_v |-> "1 Billion"],
       [size |-> BigAdd(BigAdd(VAL_Billion, VAL_Million), BigMul(VAL_OneK, 3)),
        expstr_b |-> "~954.63 MiB", expstr_v |-> "~1.00 Billion"],
       [size |-> SZ_GiB, expstr_b |-> "1 GiB", expstr_v |-> "~1.07 Billion"],
       [size |-> BigAdd(SZ_GiB, BigOf(128)), expstr_b |-> "~1.00 GiB",
        expstr_v |-> "~1.07 Billion"],
       [size |-> BigAdd(SZ_GiB, BigDiv(BigMul(SZ_GiB, 75), 100)),
        expstr_b |-> "~1.75 GiB", expstr_v |-> "~1.87 Billion"],
       [size |-> BigAdd(BigMul(SZ_GiB, 3), BigDiv(BigMul(SZ_GiB, 5), 10)),
        expstr_b |-> "~3.50 GiB", expstr_v |-> "~3.75 Billion"],
       [size |-> VAL_Trillion, expstr_b |-> "~931.32 GiB", expstr_v |-> "1 Trillion"],
       [size |-> SZ_TiB, expstr_b |-> "1 TiB", expstr_v |-> "~1.09 Trillion"],
       [size |-> BigAdd(SZ_TiB, BigOf(128)), expstr_b |-> "~1.00 TiB",
        expstr_v |-> "~1.09 Trillion"],
       [size |-> BigAdd(BigMul(SZ_TiB, 2), BigDiv(BigMul(SZ_TiB, 25), 100)),
        expstr_b |-> "~2.25 TiB", expstr_v |-> "~2.47 Trillion"],
       [size |-> BigAdd(BigMul(BigOf(2222981), 1000), BigOf(120)),
        expstr_b |-> "~2.07 GiB", expstr_v |-> "~2.22 Billion"],
       [size |-> BigAdd(SZ_KiB, BigOf(28)), expstr_b |-> "~1.02 KiB", expstr_v |-> "~1.05 K"],
       [size |-> BigAdd(SZ_MiB, BigMul(SZ_KiB, 98)), expstr_b |-> "~1.09 MiB",
        expstr_v |-> "~1.14 Million"],
       [size |-> BigAdd(SZ_GiB, BigMul(SZ_MiB, 555)), expstr_b |-> "~1.54 GiB",
        expstr_v |-> "~1.65 Billion"] >>

\* the units of both ladders
AllUnits ==
    {SZ_KiB, SZ_MiB, SZ_GiB, SZ_TiB, VAL_OneK, VAL_Million, VAL_Billion, VAL_Trillion}

\* the values a call is made with: every value up to MaxSmall, the values of the
\* regression table, and around every unit the values one below, at, one and
\* MaxSmall above it, one below twice the unit, and multiples of it
Values ==
    {BigOf(n) : n \in 0 .. MaxSmall}
        \cup {size_to_str_cases[i].size : i \in DOMAIN size_to_str_cases}
        \cup {BigSub(u, BigOf(1)) : u \in AllUnits}
        \cup {BigAdd(u, BigOf(n)) : u \in AllUnits, n \in {1, MaxSmall}}
        \cup {BigSub(BigMul(u, 2), BigOf(1)) : u \in AllUnits}
        \cup {BigMul(u, n) : u \in AllUnits, n \in {1, 2, 999, 1023}}
        \cup {SizeMax}

\* the lengths of the caller's buffer
BufLens == {8, SIZE_TO_STR_LEN - 1, SIZE_TO_STR_LEN, 40}

InitSize ==
    /\ build = [gen |-> "none", loc_enabled |-> FALSE, loc_elf |-> FALSE, apple |-> FALSE]
    /\ files = NoFiles /\ l3_log = NULL /\ l3_rv = 0 /\ l3_errno = 0 /\ init_calls = <<>>
    /\ l3_my_tid = <<>> /\ started = {} /\ libc_single_threaded = FALSE
    /\ pc = <<>> /\ ofs = <<>> /\ call = <<>> /\ grants = <<>>
    /\ NoServer
    /\ live = FALSE /\ mapped_pages = {} /\ os_fault = "ok" /\ deinit_rvs = <<>> /\ layers = <<>>
    /\ bench = <<>>
    /\ \E v \in Values, len \in BufLens, fmtstr \in Fmts :
          sz = [fn |-> "none", v |-> v, outbuflen |-> len, fmtstr |-> fmtstr,
                res |-> Returned("")]

\* the process calls fn on its inputs; res is what the call left
SizeCall(fn, res) ==
    /\ sz.fn = "none"
    /\ sz' = [sz EXCEPT !.fn = fn, !.res = res]
    /\ UNCHANGED <<l3vars, svrvars, live, mapped_pages, os_fault, deinit_rvs, layers, bench>>

call_size_to_str == SizeCall("size_to_str", size_to_str(sz.outbuflen, sz.v))
call_value_to_str == SizeCall("value_to_str", value_to_str(sz.outbuflen, sz.v))
call_size_to_fmtstr ==
    SizeCall("size_to_fmtstr", size_to_fmtstr(sz.outbuflen, sz.fmtstr, sz.v))
call_value_to_fmtstr ==
    SizeCall("value_to_fmtstr", value_to_fmtstr(sz.outbuflen, sz.fmtstr, sz.v))

NextSize ==
    \/ call_size_to_str
    \/ call_value_to_str
    \/ call_size_to_fmtstr
    \/ call_value_to_fmtstr

SpecSize == InitSize /\ [][NextSize]_vars

(***************************************************************************)
(* Properties of the formatting utility (SpecSize).                        *)
(***************************************************************************)
\* the unit k of the ladder with the given step, and the ladder of a function
UnitOf(step, k) == TimesUnit(BigOf(1), step, k)
StepOf(fn) == IF fn \in {"size_to_str", "size_to_fmtstr"} THEN 1024 ELSE 1000
UnitNames(fn) == IF fn \in {"size_to_str", "size_to_fmtstr"} THEN SizeUnits ELSE ValueUnits

\* x <= y
BigLeq(x, y) == ~BigLess(y, x)

\* the value is at or above the smallest unit of the ladder
AtLeastSmallest(v, step) == BigLeq(UnitOf(step, 1), v)

\* the largest unit of the ladder that is at most v
LargestUnit(v, step) ==
    CHOOSE k \in 1 .. 4 :
        BigLeq(UnitOf(step, k), v) /\ (k = 4 \/ BigLess(v, UnitOf(step, k + 1)))

\* floor(v / U), v mod U and floor(100 * (v mod U) / U) for the unit U = step^k
IntegerPart(v, step, k) == DivUnit(v, step, k)
Remainder(v, step, k) == BigSub(v, TimesUnit(IntegerPart(v, step, k), step, k))
FractionPercent(v, step, k) == DivUnit(BigMul(Remainder(v, step, k), 100), step, k)

\* the two forms of the text
TwoDigits(n) == ToString(n \div 10) \o ToString(n % 10)
ApproximateForm(ip, fp, unit) ==
    "~" \o ToString(BigInt(ip)) \o "." \o TwoDigits(BigInt(fp)) \o " " \o unit
PlainForm(ip, unit) == ToString(BigInt(ip)) \o " " \o unit

\* the process has called fn, on a buffer the function accepts
SizeReturned(fn) == sz.fn = fn /\ ~sz.res.aborted

\* the text fn owes a value v at or above its smallest unit, the approximate
\* form being chosen by the test approx
TextOwed(fn, v, approx(_, _, _)) ==
    LET step == StepOf(fn)
        k == LargestUnit(v, step)
    IN  IF approx(v, step, k)
            THEN ApproximateForm(IntegerPart(v, step, k), FractionPercent(v, step, k),
                                 UnitNames(fn)[k])
            ELSE PlainForm(IntegerPart(v, step, k), UnitNames(fn)[k])

NotExactMultiple(v, step, k) == Remainder(v, step, k) # BigZero
FractionNonZero(v, step, k) == FractionPercent(v, step, k) # BigZero

\* C21 (amended): size_to_str and value_to_str render the approximate form
\* "~<integerPart>.<two-digit fraction> <unit>" exactly when v is not an exact
\* multiple of its unit U (v mod U # 0), also when the fraction
\* floor(100 * (v mod U) / U) is zero, and the plain form "<integerPart> <unit>"
\* for every other value v at or above the smallest unit.
C21_ApproximateUnlessExactMultiple ==
    \A fn \in {"size_to_str", "value_to_str"} :
        SizeReturned(fn) /\ AtLeastSmallest(sz.v, StepOf(fn))
            => sz.res.out = TextOwed(fn, sz.v, NotExactMultiple)

\* C21 witness: size_to_str was called on a value that is no exact multiple of
\* its unit and has fraction zero, and left the approximate form
C21_Witness ==
    /\ SizeReturned("size_to_str")
    /\ sz.v = BigAdd(SZ_MiB, BigOf(128))
    /\ FractionPercent(sz.v, 1024, 2) = BigZero
    /\ sz.res.out = "~1.00 MiB"

\* C21 as stated: the approximate form is rendered exactly when
\* floor(100 * (v mod U) / U) is non-zero, the plain form otherwise
C21_Original_ApproximateIffFraction ==
    \A fn \in {"size_to_str", "value_to_str"} :
        SizeReturned(fn) /\ AtLeastSmallest(sz.v, StepOf(fn))
            => sz.res.out = TextOwed(fn, sz.v, FractionNonZero)

\* q = floor(x / U) for the unit U = step^k, stated with multiplication only
IsFloorOfQuotient(q, x, step, k) ==
    /\ BigLeq(TimesUnit(q, step, k), x)
    /\ BigLess(x, TimesUnit(BigAdd(q, BigOf(1)), step, k))

\* the rows of the regression table for a value, and the column of a function
CasesOf(v) == {i \in DOMAIN size_to_str_cases : size_to_str_cases[i].size = v}
Expected(fn, i) ==
    IF fn = "size_to_str" THEN size_to_str_cases[i].expstr_b ELSE size_to_str_cases[i].expstr_v

\* C22: for every value v at or above the smallest unit of a ladder,
\* size_to_str and value_to_str pick the largest unit U of the ladder with
\* U <= v, print the integer part floor(v / U) and a fraction
\* floor(100 * (v mod U) / U) that lies in 0..99; and every row of the
\* regression table gets exactly its expected string.
C22_UnitIntegerFraction ==
    \A fn \in {"size_to_str", "value_to_str"} :
        SizeReturned(fn) =>
            /\ AtLeastSmallest(sz.v, StepOf(fn)) =>
                 LET step == StepOf(fn)
                     k == LargestUnit(sz.v, step)
                     ip == IntegerPart(sz.v, step, k)
                     fp == FractionPercent(sz.v, step, k)
                 IN  /\ IsFloorOfQuotient(ip, sz.v, step, k)
                     /\ IsFloorOfQuotient(fp, BigMul(Remainder(sz.v, step, k), 100), step, k)
                     /\ BigInt(fp) \in 0 .. 99 /\ fp = BigOf(BigInt(fp))
                     /\ sz.res.out \in {ApproximateForm(ip, fp, UnitNames(fn)[k]),
                                        PlainForm(ip, UnitNames(fn)[k])}
            /\ \A i \in CasesOf(sz.v) : sz.res.out = Expected(fn, i)

\* C22 witness: value_to_str was called on a row of the table that is above
\* a billion and left the row's string, with a fraction
C22_Witness ==
    /\ SizeReturned("value_to_str")
    /\ sz.v = BigAdd(BigMul(BigOf(2222981), 1000), BigOf(120))
    /\ CasesOf(sz.v) # {}
    /\ LargestUnit(sz.v, 1000) = 3
    /\ sz.res.out = "~2.22 Billion"

\* C23: base cases of the two ladders: for every v < 1024 size_to_str leaves
\* exactly "<v> bytes", with no tilde; for every v < 1000 value_to_str leaves
\* the empty string.
C23_BaseCases ==
    /\ SizeReturned("size_to_str") /\ BigLess(sz.v, BigOf(1024))
          => sz.res.out = ToString(BigInt(sz.v)) \o " bytes"
    /\ SizeReturned("value_to_str") /\ BigLess(sz.v, BigOf(1000)) => sz.res.out = ""

\* C23 witness: value_to_str was called on the largest value below its
\* smallest unit and left the empty string
C23_Witness ==
    /\ SizeReturned("value_to_str")
    /\ sz.v = BigOf(999)
    /\ sz.res.out = ""

\* C24: every entry point that takes a caller's buffer (size_to_str,
\* value_to_str, size_to_fmtstr, value_to_fmtstr) aborts when the buffer is
\* shorter than SIZE_TO_STR_LEN bytes, and writes no truncated result into it.
C24_ShortBufferAborts ==
    \A fn \in {"size_to_str", "value_to_str", "size_to_fmtstr", "value_to_fmtstr"} :
        sz.fn = fn /\ sz.outbuflen < SIZE_TO_STR_LEN => sz.res.aborted

(***************************************************************************)
(* SpecBench: the microbenchmark harnesses, src/tests/perf/log_ubench.cpp  *)
(* and src/tests/perf/mt_ubench_l3.cpp.  main creates nthreads workers,    *)
(* the workers meet at a barrier, each runs its loop of nmsgs messages,    *)
(* main joins them and returns.  In mt_ubench_l3 main waits at the barrier *)
(* as well.                                                                *)
(***************************************************************************)
Programs == {"log_ubench", "mt_ubench_l3"}

\* argv[1] of log_ubench: the technique; mt_ubench_l3 has the one
Modes(prog) == IF prog = "log_ubench" THEN {"fprintf", "spdlog", "sprintf", "l3"} ELSE {"l3"}

\* the threads of a run: main is BenchMain, the workers are 1 .. nthreads
BenchMain == 0
BenchWorkers(n) == 1 .. n

\* nmsgs after main has looked at the mode, log_ubench.cpp:33, 156, 171;
\* L3_PERF_UBM_NMSGS in mt_ubench_l3.cpp:25
NMsgsOf(prog, mode) ==
    IF prog = "log_ubench" /\ mode \in {"sprintf", "l3"} THEN MaxMsgs * 8 ELSE MaxMsgs

\* mutant: the barrier counts main in both programs
BarrierParties_MainToo(prog, n) == n + 1

\* the count given to pthread_barrier_init: log_ubench.cpp:181, mt_ubench_l3.cpp:37
BarrierParties(prog, n) == IF prog = "mt_ubench_l3" THEN n + 1 ELSE n

InitBench ==
    /\ build = [gen |-> "none", loc_enabled |-> FALSE, loc_elf |-> FALSE, apple |-> FALSE]
    /\ files = NoFiles /\ l3_log = NULL /\ l3_rv = 0 /\ l3_errno = 0 /\ init_calls = <<>>
    /\ l3_my_tid = <<>> /\ started = {} /\ libc_single_threaded = FALSE
    /\ pc = <<>> /\ ofs = <<>> /\ call = <<>> /\ grants = <<>>
    /\ NoServer
    /\ live = FALSE /\ mapped_pages = {} /\ os_fault = "ok" /\ deinit_rvs = <<>> /\ layers = <<>>
    /\ sz = <<>>
    /\ \E prog \in Programs, n \in 1 .. MaxBenchThreads :
         \E mode \in Modes(prog) :
            bench = [prog |-> prog, mode |-> mode, nthreads |-> n,
                     nmsgs |-> NMsgsOf(prog, mode),
                     barrier |-> BarrierParties(prog, n), waiting |-> {}, serial |-> {},
                     mainpc |-> "create", i |-> 0,
                     wpc |-> [t \in BenchWorkers(n) |-> "none"],
                     j |-> [t \in BenchWorkers(n) |-> 0],
                     started |-> 0, completed |-> 0, tv0 |-> FALSE, tv1 |-> FALSE]

BenchFrame == UNCHANGED <<l3vars, svrvars, live, mapped_pages, os_fault, deinit_rvs, layers, sz>>

\* where a thread goes when the barrier lets it through
AfterBarrier(b, p) ==
    IF p = BenchMain THEN [b EXCEPT !.mainpc = "join"]
    ELSE [b EXCEPT !.wpc[p] = IF b.prog = "log_ubench" THEN "start" ELSE "loop"]

RECURSIVE ReleaseAll(_, _)
ReleaseAll(b, ps) ==
    IF ps = {} THEN b
    ELSE LET p == CHOOSE q \in ps : TRUE
         IN  ReleaseAll(AfterBarrier(b, p), ps \ {p})

\* pthread_barrier_wait() called by thread p: the thread blocks; the call that
\* completes the count releases every waiting thread and resets the barrier.
\* One of the released threads gets PTHREAD_BARRIER_SERIAL_THREAD, the others 0.
pthread_barrier_wait(b, p, serial) ==
    LET arrived == b.waiting \cup {p}
        blocked == IF p = BenchMain THEN [b EXCEPT !.mainpc = "blocked"]
                   ELSE [b EXCEPT !.wpc[p] = "blocked"]
    IN  IF Cardinality(arrived) = b.barrier
            THEN [ReleaseAll(blocked, arrived) EXCEPT !.waiting = {}, !.serial = {serial}]
            ELSE [blocked EXCEPT !.waiting = arrived]

\* main: pthread_create(&threads[i], NULL, fn, arg) and the loop around it,
\* log_ubench.cpp:184-187, mt_ubench_l3.cpp:42-53
bench_create ==
    /\ bench # <<>> /\ bench.mainpc = "create"
    /\ bench' =
         IF bench.i < bench.nthreads
             THEN [bench EXCEPT !.wpc[bench.i + 1] = "barrier", !.i = bench.i + 1]
             ELSE [bench EXCEPT !.i = 0,
                                !.mainpc = IF bench.prog = "mt_ubench_l3"
                                               THEN "barrier" ELSE "join"]
    /\ BenchFrame

\* main: pthread_barrier_wait(&barrier), mt_ubench_l3.cpp:55
bench_main_barrier ==
    /\ bench # <<>> /\ bench.mainpc = "barrier"
    /\ \E s \in bench.waiting \cup {BenchMain} :
          bench' = pthread_barrier_wait(bench, BenchMain, s)
    /\ BenchFrame

\* a worker: pthread_barrier_wait(&barrier) and the assert on what it returns,
\* log_ubench.cpp:115-116, mt_ubench_l3.cpp:45-46
bench_barrier(t) ==
    /\ bench # <<>> /\ t \in DOMAIN bench.wpc /\ bench.wpc[t] = "barrier"
    /\ \E s \in bench.waiting \cup {t} : bench' = pthread_barrier_wait(bench, t, s)
    /\ BenchFrame

\* a worker of log_ubench: the first one through takes the start time,
\* log_ubench.cpp:117
bench_start(t) ==
    /\ bench # <<>> /\ t \in DOMAIN bench.wpc /\ bench.wpc[t] = "start"
    /\ bench' = [bench EXCEPT !.started = @ + 1,
                              !.tv0 = @ \/ bench.started = 0,
                              !.wpc[t] = "loop"]
    /\ BenchFrame

\* a worker: one round of for (j = 0; j < nmsgs; j++) with the message it
\* logs; leaving the loop, a worker of log_ubench counts itself completed and
\* the last one takes the end time, log_ubench.cpp:119-124, mt_ubench_l3.cpp:48-51
bench_loop(t) ==
    /\ bench # <<>> /\ t \in DOMAIN bench.wpc /\ bench.wpc[t] = "loop"
    /\ bench' =
         IF bench.j[t] < bench.nmsgs
             THEN [bench EXCEPT !.j[t] = @ + 1]
             ELSE IF bench.prog = "log_ubench"
                 THEN [bench EXCEPT !.completed = @ + 1,
                                    !.tv1 = @ \/ bench.completed = bench.nthreads - 1,
                                    !.wpc[t] = "done"]
                 ELSE [bench EXCEPT !.wpc[t] = "done"]
    /\ BenchFrame

\* main: pthread_join(threads[i], NULL) and the loop around it, then the
\* report and return 0, log_ubench.cpp:189-195, mt_ubench_l3.cpp:58-61
bench_join ==
    /\ bench # <<>> /\ bench.mainpc = "join"
    /\ IF bench.i < bench.nthreads
           THEN /\ bench.wpc[bench.i + 1] = "done"
                /\ bench' = [bench EXCEPT !.i = @ + 1]
           ELSE bench' = [bench EXCEPT !.mainpc = "exit"]
    /\ BenchFrame

\* the steps of worker t
BenchWorker(t) == bench_barrier(t) \/ bench_start(t) \/ bench_loop(t)

NextBench ==
    \/ bench_create
    \/ bench_main_barrier
    \/ bench_join
    \/ \E t \in 1 .. MaxBenchThreads : bench_barrier(t)
    \/ \E t \in 1 .. MaxBenchThreads : bench_start(t)
    \/ \E t \in 1 .. MaxBenchThreads : bench_loop(t)

SpecBench == InitBench /\ [][NextBench]_vars

\* every thread that can take a step takes one in the end: the scheduler
\* starves no thread
SpecBenchFair ==
    /\ SpecBench
    /\ WF_vars(bench_create) /\ WF_vars(bench_main_barrier) /\ WF_vars(bench_join)
    /\ \A t \in 1 .. MaxBenchThreads : WF_vars(BenchWorker(t))

(***************************************************************************)
(* Properties of the microbenchmark harness (SpecBenchFair).               *)
(***************************************************************************)
\* main has returned, every worker has run its loop exactly nmsgs times and has
\* returned, and nobody waits at the barrier
BenchFinished ==
    /\ bench.mainpc = "exit"
    /\ bench.waiting = {}
    /\ \A t \in BenchWorkers(bench.nthreads) :
          bench.wpc[t] = "done" /\ bench.j[t] = bench.nmsgs

\* C25: for every thread count N >= 1 and every interleaving, all N workers
\* pass the barrier, each executes exactly its fixed number of iterations of
\* the selected technique, all joins complete and the process exits; no worker
\* stays blocked at the barrier.
C25_HarnessFinishes == <>[]BenchFinished

\* C25 witness: the largest run of log_ubench in mode l3 has finished, the
\* workers having been released from the barrier and counted
C25_Witness ==
    /\ bench.prog = "log_ubench" /\ bench.mode = "l3"
    /\ bench.nthreads = MaxBenchThreads
    /\ BenchFinished
    /\ bench.serial # {}
    /\ bench.completed = bench.nthreads /\ bench.tv0 /\ bench.tv1

=============================================================================
